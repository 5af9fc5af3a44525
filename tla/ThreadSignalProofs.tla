-------------------------- MODULE ThreadSignalProofs --------------------------
(***************************************************************************)
(* Machine-checked proofs about ThreadSignal, for all sets of calls,       *)
(* signals and slots, whichever rules the clients keep.                    *)
(***************************************************************************)
EXTENDS ThreadSignal, SlotListProofs

(* A call moves from one well-formed frame to another. *)
LEMMA FrameChange ==
  ASSUME TypeOK, NEW c \in Calls, NEW f \in Frame, FrameOK(f),
         call' = [call EXCEPT ![c] = f]
  PROVE  call' \in [Calls -> Frame] /\ \A d \in Calls : FrameOK(call'[d])
<1>1. \A d \in Calls : call'[d] = IF d = c THEN f ELSE call[d]
  BY DEF TypeOK
<1>2. QED
  BY <1>1 DEF TypeOK

(* The frame of a call, field by field. *)
LEMMA FrameFields ==
  ASSUME TypeOK, NEW c \in Calls
  PROVE  /\ call[c] \in Frame /\ FrameOK(call[c])
         /\ call[c] = [pc |-> call[c].pc, op |-> call[c].op, sig |-> call[c].sig,
                       slot |-> call[c].slot, pos |-> call[c].pos,
                       completed |-> call[c].completed, caller |-> call[c].caller]
BY DEF TypeOK, Frame

(* Going on to another place of the same method. *)
LEMMA GotoTyped ==
  ASSUME TypeOK, NEW c \in Calls, NEW pc, Goto(c, pc), pc \in PcsOf(call[c].op),
         call[c].op \in OnSignal \/ pc \notin {"idle", "slot", "dtor", "detach", "free"}
           => call[c].sig \in Signals,
         pc \in Pcs \ {"callback", "released", "iterate", "release"} \/ call[c].op \in {"remove", "destroySlot"}
  PROVE  call' \in [Calls -> Frame] /\ \A d \in Calls : FrameOK(call'[d])
<1> DEFINE f == [call[c] EXCEPT !.pc = pc]
<1>1. call' = [call EXCEPT ![c] = f]
  BY DEF Goto
<1>2. f \in Frame
  BY FrameFields DEF Frame, PcsOf, Pcs, Ops
<1>3. FrameOK(f)
  BY FrameFields, ZenonT(40) DEF FrameOK, Frame, OnSlot, Changes, SlotOps, Loops
<1>4. QED
  BY <1>1, <1>2, <1>3, FrameChange

(* Returning leaves the call idle. *)
LEMMA IdleTyped == Idle \in Frame /\ FrameOK(Idle)
BY DEF Idle, Frame, FrameOK, Pcs, Ops, PcsOf, OnSignal, OnSlot, Changes, SlotOps,
       ReadOps, Loops

LEMMA ReturnTyped ==
  ASSUME TypeOK, NEW c \in Calls, Return(c)
  PROVE  call' \in [Calls -> Frame] /\ \A d \in Calls : FrameOK(call'[d])
BY IdleTyped, FrameChange DEF Return

LEMMA InitTyped == Init => TypeOK
<1> SUFFICES ASSUME Init PROVE TypeOK
  OBVIOUS
<1>1. \A sg \in Signals : mlistSlots[sg] = <<>> /\ <<>> \in Seq(Slots)
  BY DEF Init
<1>2. call \in [Calls -> Frame] /\ \A c \in Calls : FrameOK(call[c])
  BY IdleTyped DEF Init
<1>3. QED
  BY <1>1, <1>2 DEF Init, TypeOK

-----------------------------------------------------------------------------
(* The cursor of a loop that is not at its end is on a slot. *)
LEMMA SlotAtTyped ==
  ASSUME TypeOK, NEW c \in Calls, ~AtEnd(c),
         call[c].pc \in {"iterate", "release"}
  PROVE  SlotAt(c) \in Slots
<1>1. FrameOK(call[c]) /\ call[c] \in Frame
  BY FrameFields
<1>2. CASE call[c].op \in Loops
  <2>1. call[c].sig \in Signals /\ call[c].pos \in Nat /\ call[c].pos >= 1
    BY <1>1, <1>2 DEF FrameOK, Frame
  <2>2. mlistSlots[call[c].sig] \in Seq(Slots)
    BY <2>1 DEF TypeOK
  <2>3. call[c].pos \in 1..Len(mlistSlots[call[c].sig])
    BY <1>2, <2>1, <2>2 DEF AtEnd
  <2>4. QED
    BY <1>2, <2>2, <2>3 DEF SlotAt
<1>3. CASE call[c].op \notin Loops
  <2>1. call[c].op \in OnSlot
    BY <1>1, <1>3 DEF FrameOK, Frame, PcsOf, Ops, OnSignal, OnSlot, Changes,
                      SlotOps, ReadOps, Loops
  <2>2. QED
    BY <1>1, <1>3, <2>1 DEF FrameOK, SlotAt
<1>4. QED
  BY <1>2, <1>3

(* Beginning a call. *)
LEMMA BeginTyped ==
  ASSUME TypeOK, NEW c \in Calls, NEW op \in Ops, NEW a \in Signature(op),
         NEW p \in Calls \cup {None}, Begin(c, op, a[1], a[2], p)
  PROVE  TypeOK'
<1> DEFINE f == [pc |-> FirstPc(op), op |-> op, sig |-> a[1], slot |-> a[2],
                 pos |-> IF op = "destroySignal" THEN 1 ELSE 0,
                 completed |-> FALSE, caller |-> p]
<1>1. /\ a[1] \in Signals \cup {None} /\ a[2] \in Slots \cup {None}
      /\ op \in OnSignal => a[1] \in Signals
      /\ op \in OnSlot => a[2] \in Slots
  BY DEF Signature
<1>3. FirstPc(op) \in Pcs /\ FirstPc(op) \in PcsOf(op)
  BY DEF FirstPc, Pcs, PcsOf, Ops, OnSignal, OnSlot, Changes, SlotOps, ReadOps, Loops
<1>4. f \in Frame
  BY <1>1, <1>3 DEF Frame
<1>5. /\ op \notin OnSignal => FirstPc(op) \in {"idle", "slot", "dtor", "detach", "free"}
      /\ FirstPc(op) \notin {"callback", "released", "iterate"}
      /\ FirstPc(op) = "release" => op = "destroySignal"
  BY DEF FirstPc, Ops, OnSignal, OnSlot, Changes, SlotOps, ReadOps, Loops
<1>6. FrameOK(f)
  BY <1>1, <1>3, <1>5 DEF FrameOK
<1> HIDE DEF f
<1>7. call' = [call EXCEPT ![c] = f]
  BY DEF Begin, f
<1>8. call' \in [Calls -> Frame] /\ \A d \in Calls : FrameOK(call'[d])
  BY <1>4, <1>6, <1>7, FrameChange
<1>9. QED
  BY <1>8 DEF TypeOK, Begin, signalVars, lockVars, slotVars, fieldVars

LEMMA LockStepTyped ==
  ASSUME TypeOK, NEW c \in Calls, LockStep(c)
  PROVE  TypeOK'
<1> DEFINE op == call[c].op
<1>0. call[c] \in Frame /\ FrameOK(call[c])
  BY FrameFields
<1>1. CASE AcquireRead(c)
  <2>1. call[c].sig \in Signals /\ op \in {"dispatch", "query"} /\ call[c].pc = "lock"
    BY <1>0, <1>1 DEF AcquireRead, At, FrameOK, ReadOps
  <2>2. CASE op = "dispatch"
    <3> DEFINE f == [call[c] EXCEPT !.pc = "iterate", !.pos = 1]
    <3>1. f \in Frame
      BY <1>0 DEF Frame, Pcs
    <3>2. /\ f.pc = "iterate" /\ f.pos = 1 /\ f.op = "dispatch"
          /\ f.sig = call[c].sig /\ f.slot = call[c].slot
      BY <1>0, <2>2 DEF Frame
    <3>3. FrameOK(f)
      BY <2>1, <3>2 DEF FrameOK, PcsOf, OnSlot, Changes, SlotOps
    <3>4. call' = [call EXCEPT ![c] = f]
      BY <1>1, <2>2 DEF AcquireRead
    <3>5. QED
      BY <3>1, <3>3, <3>4, FrameChange, <1>1, <2>1
      DEF AcquireRead, TypeOK, signalVars, slotVars, fieldVars
  <2>3. CASE op = "query"
    <3>1. Goto(c, "unlock")
      BY <1>1, <2>3 DEF AcquireRead
    <3>2. call' \in [Calls -> Frame] /\ \A d \in Calls : FrameOK(call'[d])
      BY <2>1, <2>3, <3>1, GotoTyped DEF PcsOf, Pcs, SlotOps
    <3>3. QED
      BY <3>2, <1>1, <2>1 DEF AcquireRead, TypeOK, signalVars, slotVars, fieldVars
  <2>4. QED
    BY <2>1, <2>2, <2>3
<1>2. CASE AcquireWrite(c)
  <2>1. /\ call[c].sig \in Signals /\ call[c].pc = "lock"
        /\ op \in {"add", "remove", "removeAll", "destroySlot"}
    BY <1>0, <1>2 DEF AcquireWrite, At, FrameOK, ReadOps, PcsOf, SlotOps,
                      Frame, Ops, OnSlot, OnSignal, Changes, Loops
  <2> DEFINE pc == CASE op = "add" -> "connect" [] op = "removeAll" -> "release"
                     [] OTHER -> "unlink"
             f == [call[c] EXCEPT !.pc = pc, !.pos = IF op = "removeAll" THEN 1 ELSE 0]
  <2>2. pc \in Pcs /\ pc \in PcsOf(op) /\ (op \in Loops => op = "removeAll")
        /\ pc \notin {"callback", "released", "iterate"}
    BY <2>1 DEF Pcs, PcsOf, Loops, SlotOps
  <2> HIDE DEF pc
  <2>3. f \in Frame /\ FrameOK(f)
    <3>1. f \in Frame
      BY <1>0, <2>2 DEF Frame
    <3>2. /\ f.pc = pc /\ f.pos = (IF op = "removeAll" THEN 1 ELSE 0) /\ f.op = op
          /\ f.sig = call[c].sig /\ f.slot = call[c].slot
      BY <1>0 DEF Frame
    <3>3. op \in OnSlot => call[c].slot \in Slots
      BY <1>0 DEF FrameOK
    <3>4. QED
      BY <2>1, <2>2, <3>1, <3>2, <3>3 DEF FrameOK
  <2>4. call' = [call EXCEPT ![c] = f]
    BY <1>2 DEF AcquireWrite, pc
  <2>5. QED
    BY <2>3, <2>4, FrameChange, <1>2, <2>1
    DEF AcquireWrite, TypeOK, signalVars, slotVars, fieldVars
<1>3. CASE Unlock(c)
  <2>1. call[c].sig \in Signals /\ call[c].pc = "unlock"
    BY <1>0, <1>3 DEF Unlock, At, FrameOK
  <2>2. call' \in [Calls -> Frame] /\ \A d \in Calls : FrameOK(call'[d])
    <3>1. CASE op = "destroySlot"
      BY <1>3, <2>1, <3>1, GotoTyped DEF Unlock, PcsOf, Pcs, SlotOps
    <3>2. CASE op # "destroySlot"
      BY <1>3, <3>2, ReturnTyped DEF Unlock
    <3>3. QED
      BY <3>1, <3>2
  <2>3. QED
    BY <2>1, <2>2, <1>3
    DEF Unlock, ReleaseLock, TypeOK, signalVars, slotVars, fieldVars
<1>4. QED
  BY <1>1, <1>2, <1>3 DEF LockStep

(* The method that a call is in, from the place it has reached. *)
LEMMA MethodAt ==
  ASSUME TypeOK, NEW c \in Calls
  PROVE  /\ call[c].pc \in {"assert", "connect", "insert"} => call[c].op = "add"
         /\ call[c].pc = "unlink" => call[c].op \in {"remove", "destroySlot"}
         /\ call[c].pc \in {"release", "released"} =>
              call[c].op \in {"remove", "destroySlot", "removeAll", "destroySignal"}
         /\ call[c].pc \in {"iterate", "callback"} => call[c].op = "dispatch"
         /\ call[c].pc = "slot" => call[c].op \in SlotOps
         /\ call[c].pc \in {"dtor", "detach", "free"} => call[c].op = "destroySlot"
<1>1. call[c].op \in Ops \cup {"none"} /\ call[c].pc \in PcsOf(call[c].op)
  BY FrameFields DEF FrameOK, Frame
<1>2. QED
  BY <1>1 DEF PcsOf, Ops, OnSlot, OnSignal, Changes, SlotOps, ReadOps, Loops

LEMMA PriorityTyped == miPriority \in [Slots -> Int]
BY DEF miPriority

LEMMA AddStepTyped ==
  ASSUME TypeOK, NEW c \in Calls, AddStep(c)
  PROVE  TypeOK'
<1>0. call[c] \in Frame /\ FrameOK(call[c])
  BY FrameFields
<1>1. ASSUME call[c].op = "add", NEW pc \in {"lock", "insert", "unlock"}, Goto(c, pc)
      PROVE  call' \in [Calls -> Frame] /\ \A d \in Calls : FrameOK(call'[d])
  <2>1. /\ call[c].op \in OnSignal
        /\ pc \in PcsOf(call[c].op)
        /\ pc \in Pcs \ {"callback", "released", "iterate", "release"}
    BY <1>1 DEF PcsOf, Pcs, OnSignal, SlotOps
  <2>2. call[c].sig \in Signals
    BY <1>0, <2>1 DEF FrameOK
  <2>3. QED
    BY <1>1, <2>1, <2>2, GotoTyped
<1>2. CASE CheckAttached(c)
  BY <1>1, <1>2, MethodAt
  DEF CheckAttached, At, TypeOK, signalVars, lockVars, slotVars, fieldVars
<1>3. CASE ConnectSignal(c)
  <2>1. call[c].op = "add" /\ call[c].sig \in Signals /\ call[c].slot \in Slots
    BY <1>0, <1>3, MethodAt DEF ConnectSignal, At, FrameOK, OnSignal, OnSlot, Changes
  <2>2. call' \in [Calls -> Frame] /\ \A d \in Calls : FrameOK(call'[d])
    BY <1>1, <1>3, <2>1 DEF ConnectSignal
  <2>3. /\ mpcSignal' \in [Slots -> Signals \cup {None}]
        /\ mbActive' \in [Slots -> BOOLEAN]
        /\ mbFireOnceCompleted' \in [Slots -> BOOLEAN]
    BY <1>3, <2>1 DEF ConnectSignal, TypeOK
  <2>4. mbFireOnce' \in [Slots -> BOOLEAN]
    BY <1>3, <2>1, ConstantsAssumption DEF ConnectSignal, TypeOK
  <2>5. QED
    BY <1>3, <2>2, <2>3, <2>4 DEF ConnectSignal, TypeOK, signalVars, lockVars
<1>4. CASE Insert(c)
  <2>1. call[c].op = "add" /\ call[c].sig \in Signals /\ call[c].slot \in Slots
    BY <1>0, <1>4, MethodAt DEF Insert, At, FrameOK, OnSignal, OnSlot, Changes
  <2>2. call' \in [Calls -> Frame] /\ \A d \in Calls : FrameOK(call'[d])
    BY <1>1, <1>4, <2>1 DEF Insert
  <2>3. mlistSlots[call[c].sig] \in Seq(Slots)
    BY <2>1 DEF TypeOK
  <2>4. RawInsertSlot(mlistSlots[call[c].sig], call[c].slot, miPriority) \in Seq(Slots)
    BY <2>1, <2>3, PriorityTyped, InsertKeepsOrder
  <2>5. mlistSlots' \in [Signals -> Seq(Slots)]
    BY <1>4, <2>4 DEF Insert, TypeOK
  <2>6. QED
    BY <1>4, <2>2, <2>5 DEF Insert, TypeOK, lockVars, slotVars, fieldVars
<1>5. QED
  BY <1>2, <1>3, <1>4 DEF AddStep

LEMMA RemoveStepTyped ==
  ASSUME TypeOK, NEW c \in Calls, RemoveStep(c)
  PROVE  TypeOK'
<1> DEFINE op == call[c].op
<1>0. call[c] \in Frame /\ FrameOK(call[c])
  BY FrameFields
<1>1. CASE Unlink(c)
  <2>1. op \in {"remove", "destroySlot"} /\ call[c].sig \in Signals
    BY <1>0, <1>1, MethodAt DEF Unlink, At, FrameOK
  <2>2. call' \in [Calls -> Frame] /\ \A d \in Calls : FrameOK(call'[d])
    BY <1>1, <2>1, GotoTyped DEF Unlink, PcsOf, Pcs, SlotOps
  <2>3. RawRemoveSlot(mlistSlots[call[c].sig], call[c].slot) \in Seq(Slots)
    BY <2>1, RemoveKeepsOthers DEF TypeOK
  <2>4. mlistSlots' \in [Signals -> Seq(Slots)]
    BY <1>1, <2>3 DEF Unlink, TypeOK
  <2>5. QED
    BY <1>1, <2>2, <2>4 DEF Unlink, TypeOK, lockVars, slotVars, fieldVars
<1>2. CASE ReleaseSignal(c)
  <2> DEFINE s == SlotAt(c)
             f == [call[c] EXCEPT !.pc = "released", !.slot = s]
  <2>1. /\ s \in Slots /\ call[c].pc = "release" /\ call[c].sig \in Signals
        /\ op \in {"remove", "destroySlot", "removeAll", "destroySignal"}
    BY <1>0, <1>2, SlotAtTyped, MethodAt DEF ReleaseSignal, At, FrameOK
  <2> HIDE DEF s
  <2>2. f \in Frame
    BY <1>0, <2>1 DEF Frame, Pcs
  <2>3. /\ f.pc = "released" /\ f.op = op /\ f.sig = call[c].sig
        /\ f.slot = s /\ f.pos = call[c].pos
    BY <1>0 DEF Frame
  <2>4. FrameOK(f)
    <3>1. "released" \in PcsOf(op)
      BY <2>1 DEF PcsOf, SlotOps
    <3>2. op \in Loops => call[c].pos >= 1
      BY <1>0, <2>1 DEF FrameOK
    <3>3. QED
      BY <2>1, <2>3, <3>1, <3>2 DEF FrameOK
  <2>5. call' = [call EXCEPT ![c] = f]
    BY <1>2 DEF ReleaseSignal, s
  <2>6. call' \in [Calls -> Frame] /\ \A d \in Calls : FrameOK(call'[d])
    BY <2>2, <2>4, <2>5, FrameChange
  <2>7. /\ mMutex' = [mMutex EXCEPT ![s] = c]
        /\ mpcSignal' = [mpcSignal EXCEPT ![s] = None]
        /\ mbActive' = [mbActive EXCEPT ![s] = FALSE]
        /\ mbFireOnce' = [mbFireOnce EXCEPT ![s] = FALSE]
        /\ mbFireOnceCompleted' = [mbFireOnceCompleted EXCEPT ![s] = FALSE]
    BY <1>2 DEF ReleaseSignal, s
  <2>8. /\ mMutex' \in [Slots -> Calls \cup {None}]
        /\ mpcSignal' \in [Slots -> Signals \cup {None}]
        /\ mbActive' \in [Slots -> BOOLEAN]
        /\ mbFireOnce' \in [Slots -> BOOLEAN]
        /\ mbFireOnceCompleted' \in [Slots -> BOOLEAN]
    BY <2>7 DEF TypeOK
  <2>9. QED
    BY <1>2, <2>6, <2>8 DEF ReleaseSignal, TypeOK, signalVars, lockVars
<1>3. CASE UnlockSlot(c)
  <2>1. /\ call[c].pc = "released" /\ call[c].sig \in Signals
        /\ op \in {"remove", "destroySlot", "removeAll", "destroySignal"}
    BY <1>0, <1>3, MethodAt DEF UnlockSlot, At, FrameOK
  <2>2. call' \in [Calls -> Frame] /\ \A d \in Calls : FrameOK(call'[d])
    <3>1. CASE op \in Loops
      <4> DEFINE f == [call[c] EXCEPT !.pc = "release", !.slot = None, !.pos = @ + 1]
      <4>1. op \in {"removeAll", "destroySignal"} /\ call[c].pos \in Nat /\ call[c].pos >= 1
        BY <1>0, <2>1, <3>1 DEF Frame, FrameOK, Loops
      <4>2. call[c].pos + 1 \in Nat /\ call[c].pos + 1 >= 1
        BY <4>1
      <4>3. f \in Frame
        BY <1>0, <4>2 DEF Frame, Pcs
      <4>4. /\ f.pc = "release" /\ f.op = op /\ f.sig = call[c].sig
            /\ f.pos = call[c].pos + 1
        BY <1>0 DEF Frame
      <4>5. "release" \in PcsOf(op) /\ op \notin OnSlot
        BY <4>1 DEF PcsOf, OnSlot, Changes, SlotOps
      <4>6. FrameOK(f)
        BY <2>1, <4>2, <4>4, <4>5 DEF FrameOK
      <4>7. call' = [call EXCEPT ![c] = f]
        BY <1>3, <3>1 DEF UnlockSlot
      <4>8. QED
        BY <4>3, <4>6, <4>7, FrameChange
    <3>2. CASE op \notin Loops
      <4>1. op \in {"remove", "destroySlot"} /\ Goto(c, "unlock")
        BY <1>3, <2>1, <3>2 DEF UnlockSlot, Loops
      <4>2. QED
        BY <2>1, <4>1, GotoTyped DEF PcsOf, Pcs, SlotOps
    <3>3. QED
      BY <3>1, <3>2
  <2>3. mMutex' \in [Slots -> Calls \cup {None}]
    BY <1>3 DEF UnlockSlot, TypeOK
  <2>4. QED
    BY <1>3, <2>2, <2>3 DEF UnlockSlot, TypeOK, signalVars, lockVars, fieldVars
<1>4. CASE Clear(c)
  <2>1. /\ call[c].pc = "release" /\ call[c].sig \in Signals
        /\ op \in {"removeAll", "destroySignal"}
    BY <1>0, <1>4, MethodAt DEF Clear, At, AtEnd, FrameOK, Loops
  <2>2. /\ call' \in [Calls -> Frame] /\ \A d \in Calls : FrameOK(call'[d])
        /\ signalLife' \in [Signals -> {"alive", "dead"}]
    <3>1. CASE op = "removeAll"
      <4> DEFINE f == [call[c] EXCEPT !.pc = "unlock", !.pos = 0]
      <4>1. f \in Frame
        BY <1>0 DEF Frame, Pcs
      <4>2. f.pc = "unlock" /\ f.op = op /\ f.sig = call[c].sig
        BY <1>0 DEF Frame
      <4>3. FrameOK(f)
        BY <2>1, <3>1, <4>2 DEF FrameOK, PcsOf, OnSlot, Changes, SlotOps
      <4>4. call' = [call EXCEPT ![c] = f] /\ signalLife' = signalLife
        BY <1>4, <3>1 DEF Clear
      <4>5. QED
        BY <4>1, <4>3, <4>4, FrameChange DEF TypeOK
    <3>2. CASE op # "removeAll"
      <4>1. Return(c) /\ signalLife' = [signalLife EXCEPT ![call[c].sig] = "dead"]
        BY <1>4, <3>2 DEF Clear
      <4>2. QED
        BY <4>1, ReturnTyped DEF TypeOK
    <3>3. QED
      BY <3>1, <3>2
  <2>3. mlistSlots' = [mlistSlots EXCEPT ![call[c].sig] = <<>>] /\ <<>> \in Seq(Slots)
    BY <1>4 DEF Clear
  <2>4. mlistSlots' \in [Signals -> Seq(Slots)]
    BY <2>3 DEF TypeOK
  <2>5. QED
    BY <1>4, <2>2, <2>4 DEF Clear, TypeOK, lockVars, slotVars, fieldVars
<1>5. QED
  BY <1>1, <1>2, <1>3, <1>4 DEF RemoveStep

LEMMA DispatchStepTyped ==
  ASSUME TypeOK, NEW c \in Calls, DispatchStep(c)
  PROVE  TypeOK'
<1>0. call[c] \in Frame /\ FrameOK(call[c])
  BY FrameFields
<1>1. /\ call[c].op = "dispatch" /\ call[c].sig \in Signals
      /\ call[c].pc \in {"iterate", "callback"}
      /\ call[c].pos \in Nat /\ call[c].pos >= 1
  <2>1. call[c].pc \in {"iterate", "callback"}
    BY DEF DispatchStep, Visit, FinishCallback, EndDispatch, At
  <2>2. call[c].op = "dispatch"
    BY <2>1, MethodAt
  <2>3. QED
    BY <1>0, <2>1, <2>2 DEF FrameOK, Frame, Loops
<1>2. call[c].pos + 1 \in Nat /\ call[c].pos + 1 >= 1
  BY <1>1
<1>3. \A pc \in {"iterate", "callback", "complete", "unlock"} :
        pc \in Pcs /\ pc \in PcsOf("dispatch")
  BY DEF Pcs, PcsOf, SlotOps
<1>4. ASSUME NEW f \in Frame, call' = [call EXCEPT ![c] = f], f.op = "dispatch",
             f.sig \in Signals, f.pc \in {"iterate", "callback", "complete", "unlock"},
             f.pc = "callback" => f.slot \in Slots,
             f.pc \in {"iterate", "callback"} => f.pos >= 1
      PROVE  call' \in [Calls -> Frame] /\ \A d \in Calls : FrameOK(call'[d])
  <2>1. FrameOK(f)
    BY <1>3, <1>4 DEF FrameOK, OnSlot, Changes, SlotOps
  <2>2. QED
    BY <1>4, <2>1, FrameChange
<1>5. CASE Visit(c)
  <2> DEFINE s == SlotAt(c)
  <2>1. s \in Slots
    BY <1>5, SlotAtTyped DEF Visit, At
  <2> HIDE DEF s
  <2>2. CASE mbActive[s] /\ hasFunction[s]
    <3> DEFINE f == [call[c] EXCEPT !.pc = "callback", !.slot = s]
    <3>1. f \in Frame
      BY <1>0, <1>3, <2>1 DEF Frame
    <3>2. /\ f.pc = "callback" /\ f.op = "dispatch" /\ f.sig \in Signals
          /\ f.slot = s /\ f.pos >= 1
      BY <1>0, <1>1 DEF Frame
    <3>3. call' = [call EXCEPT ![c] = f] /\ mMutex' = [mMutex EXCEPT ![s] = c]
      BY <1>5, <2>2 DEF Visit, s
    <3>4. call' \in [Calls -> Frame] /\ \A d \in Calls : FrameOK(call'[d])
      BY <1>4, <2>1, <3>1, <3>2, <3>3
    <3>5. QED
      BY <1>5, <3>3, <3>4 DEF Visit, TypeOK, signalVars, lockVars, fieldVars
  <2>3. CASE ~ (mbActive[s] /\ hasFunction[s])
    <3> DEFINE f == [call[c] EXCEPT !.pos = @ + 1]
    <3>1. f \in Frame
      BY <1>0, <1>2 DEF Frame
    <3>2. /\ f.pc = "iterate" /\ f.op = "dispatch" /\ f.sig \in Signals
          /\ f.pos >= 1
      BY <1>0, <1>1, <1>2, <1>5 DEF Frame, Visit, At
    <3>3. call' = [call EXCEPT ![c] = f] /\ mMutex' = mMutex
      BY <1>5, <2>3 DEF Visit, s
    <3>4. call' \in [Calls -> Frame] /\ \A d \in Calls : FrameOK(call'[d])
      BY <1>4, <3>1, <3>2, <3>3
    <3>5. QED
      BY <1>5, <3>3, <3>4 DEF Visit, TypeOK, signalVars, lockVars, fieldVars
  <2>4. QED
    BY <2>2, <2>3
<1>6. CASE FinishCallback(c)
  <2> DEFINE s == call[c].slot
             once == call[c].completed \/ mbFireOnce[s]
             f == [call[c] EXCEPT !.pc = "iterate", !.slot = None, !.pos = @ + 1,
                                  !.completed = once]
  <2>1. s \in Slots
    BY <1>0, <1>6 DEF FinishCallback, At, FrameOK
  <2>2. once \in BOOLEAN
    BY DEF once
  <2> HIDE DEF once
  <2>3. f \in Frame
    BY <1>0, <1>2, <1>3, <2>2 DEF Frame
  <2>4. /\ f.pc = "iterate" /\ f.op = "dispatch" /\ f.sig \in Signals
        /\ f.pos >= 1
    BY <1>0, <1>1, <1>2 DEF Frame
  <2>5. call' = [call EXCEPT ![c] = f]
    BY <1>6 DEF FinishCallback, once
  <2>6. call' \in [Calls -> Frame] /\ \A d \in Calls : FrameOK(call'[d])
    BY <1>4, <2>3, <2>4, <2>5
  <2>7. /\ mbFireOnceCompleted' \in [Slots -> BOOLEAN]
        /\ mbActive' \in [Slots -> BOOLEAN]
    BY <1>6, <2>1, Zenon DEF FinishCallback, TypeOK
  <2>8. mMutex' \in [Slots -> Calls \cup {None}]
    BY <1>6, <2>1 DEF FinishCallback, TypeOK
  <2>9. QED
    BY <1>6, <2>6, <2>7, <2>8 DEF FinishCallback, TypeOK, signalVars, lockVars
<1>7. CASE EndDispatch(c)
  <2> DEFINE pc == IF call[c].completed THEN "complete" ELSE "unlock"
             f == [call[c] EXCEPT !.pc = pc, !.pos = 0]
  <2>1. pc \in {"complete", "unlock"}
    OBVIOUS
  <2> HIDE DEF pc
  <2>2. f \in Frame
    BY <1>0, <1>3, <2>1 DEF Frame
  <2>3. f.pc = pc /\ f.op = "dispatch" /\ f.sig \in Signals
    BY <1>0, <1>1 DEF Frame
  <2>4. call' = [call EXCEPT ![c] = f]
    BY <1>7 DEF EndDispatch, pc
  <2>5. call' \in [Calls -> Frame] /\ \A d \in Calls : FrameOK(call'[d])
    BY <1>4, <2>1, <2>2, <2>3, <2>4
  <2>6. QED
    BY <1>7, <2>5 DEF EndDispatch, TypeOK, signalVars, lockVars, slotVars, fieldVars
<1>8. QED
  BY <1>5, <1>6, <1>7 DEF DispatchStep

LEMMA SlotStepTyped ==
  ASSUME TypeOK, NEW c \in Calls, SlotStep(c)
  PROVE  TypeOK'
<1>1. Return(c)
  BY DEF SlotStep, SetActive, Attach
<1>2. call' \in [Calls -> Frame] /\ \A d \in Calls : FrameOK(call'[d])
  BY <1>1, ReturnTyped
<1>3. CASE SetActive(c)
  <2>1. mbActive' \in [Slots -> BOOLEAN]
    BY <1>3 DEF SetActive, TypeOK
  <2>2. QED
    BY <1>2, <1>3, <2>1 DEF SetActive, TypeOK, signalVars, lockVars
<1>4. CASE Attach(c)
  <2>1. hasFunction' \in [Slots -> BOOLEAN]
    BY <1>4 DEF Attach, TypeOK
  <2>2. QED
    BY <1>2, <1>4, <2>1 DEF Attach, TypeOK, signalVars, lockVars, fieldVars
<1>5. QED
  BY <1>3, <1>4 DEF SlotStep

LEMMA DestroyStepTyped ==
  ASSUME TypeOK, NEW c \in Calls, DestroyStep(c)
  PROVE  TypeOK'
<1>0. call[c] \in Frame /\ FrameOK(call[c])
  BY FrameFields
<1>1. call[c].op = "destroySlot" /\ call[c].slot \in Slots
  <2>1. call[c].op = "destroySlot"
    BY MethodAt DEF DestroyStep, DestroyFunction, Detach, Free, At
  <2>2. QED
    BY <1>0, <2>1 DEF FrameOK, OnSlot, Changes
<1>2. CASE DestroyFunction(c)
  <2>1. call' \in [Calls -> Frame] /\ \A d \in Calls : FrameOK(call'[d])
    BY <1>1, <1>2, GotoTyped DEF DestroyFunction, PcsOf, Pcs, SlotOps, OnSignal,
       ReadOps, Loops
  <2>2. slotLife' \in [Slots -> {"alive", "noFunction", "dead"}]
    BY <1>2 DEF DestroyFunction, TypeOK
  <2>3. QED
    BY <1>2, <2>1, <2>2 DEF DestroyFunction, TypeOK, signalVars, lockVars, fieldVars
<1>3. CASE Detach(c)
  <2> DEFINE sg == mpcSignal[call[c].slot]
             f == [call[c] EXCEPT !.pc = AfterDetach(sg), !.sig = sg]
  <2>1. sg \in Signals \cup {None}
    BY <1>1 DEF TypeOK
  <2>2. AfterDetach(sg) \in {"lock", "free"} /\ (AfterDetach(sg) = "lock" => sg \in Signals)
    BY <2>1 DEF AfterDetach
  <2> HIDE DEF sg
  <2>3. f \in Frame
    BY <1>0, <2>1, <2>2 DEF Frame, Pcs
  <2>4. /\ f.pc = AfterDetach(sg) /\ f.op = "destroySlot" /\ f.sig = sg
        /\ f.slot = call[c].slot
    BY <1>0, <1>1 DEF Frame
  <2>5. FrameOK(f)
    BY <1>1, <2>2, <2>4 DEF FrameOK, PcsOf, SlotOps, OnSignal, ReadOps, Loops
  <2>6. call' = [call EXCEPT ![c] = f]
    BY <1>3 DEF Detach, sg
  <2>7. call' \in [Calls -> Frame] /\ \A d \in Calls : FrameOK(call'[d])
    BY <2>3, <2>5, <2>6, FrameChange
  <2>8. QED
    BY <1>3, <2>7 DEF Detach, TypeOK, signalVars, lockVars, slotVars, fieldVars
<1>4. CASE Free(c)
  <2>1. call' \in [Calls -> Frame] /\ \A d \in Calls : FrameOK(call'[d])
    BY <1>4, ReturnTyped DEF Free
  <2>2. slotLife' \in [Slots -> {"alive", "noFunction", "dead"}]
    BY <1>4 DEF Free, TypeOK
  <2>3. QED
    BY <1>4, <2>1, <2>2 DEF Free, TypeOK, signalVars, lockVars, fieldVars
<1>5. QED
  BY <1>2, <1>3, <1>4 DEF DestroyStep

-----------------------------------------------------------------------------
LEMMA NewObjectTyped ==
  ASSUME TypeOK, (\E s \in Slots : NewSlot(s)) \/ (\E sg \in Signals : NewSignal(sg))
  PROVE  TypeOK'
<1>1. ASSUME NEW s \in Slots, NewSlot(s) PROVE TypeOK'
  BY <1>1 DEF NewSlot, TypeOK, signalVars, lockVars
<1>2. ASSUME NEW sg \in Signals, NewSignal(sg) PROVE TypeOK'
  <2>1. mlistSlots' = [mlistSlots EXCEPT ![sg] = <<>>] /\ <<>> \in Seq(Slots)
    BY <1>2 DEF NewSignal
  <2>2. mlistSlots' \in [Signals -> Seq(Slots)]
    BY <2>1 DEF TypeOK
  <2>3. QED
    BY <1>2, <2>2 DEF NewSignal, TypeOK, lockVars, slotVars, fieldVars
<1>3. QED
  BY <1>1, <1>2

LEMMA NextTyped == TypeOK /\ [Next]_vars => TypeOK'
<1> SUFFICES ASSUME TypeOK, [Next]_vars PROVE TypeOK'
  OBVIOUS
<1>1. ASSUME NEW c \in Calls, ThreadCalls(c) PROVE TypeOK'
  <2>1. PICK op \in ThreadOps : \E a \in Signature(op) : Begin(c, op, a[1], a[2], None)
    BY <1>1 DEF ThreadCalls
  <2>2. QED
    BY <2>1, BeginTyped, ConstantsAssumption
<1>2. ASSUME NEW c \in Calls, CallbackCalls(c) PROVE TypeOK'
  <2>1. PICK p \in Calls, op \in CallbackOps :
          \E a \in Signature(op) : Begin(c, op, a[1], a[2], p)
    BY <1>2 DEF CallbackCalls
  <2>2. QED
    BY <2>1, BeginTyped, ConstantsAssumption
<1>3. ASSUME NEW c \in Calls, Step(c) PROVE TypeOK'
  BY <1>3, LockStepTyped, AddStepTyped, RemoveStepTyped, DispatchStepTyped,
     SlotStepTyped, DestroyStepTyped DEF Step
<1>4. CASE UNCHANGED vars
  BY <1>4 DEF vars, signalVars, lockVars, slotVars, fieldVars, TypeOK
<1>5. QED
  BY <1>1, <1>2, <1>3, <1>4, NewObjectTyped DEF Next

(* Every behaviour keeps the state well formed: each call is at a place of *)
(* its method and has there the signal, the slot and the cursor that the   *)
(* code uses; no null pointer is locked, no cursor is before its list.     *)
THEOREM TypeCorrect == Spec => []TypeOK
<1>1. QED
  BY InitTyped, NextTyped, PTL DEF Spec

-----------------------------------------------------------------------------
(* The read-write locks are held exactly where the code thinks they are,   *)
(* and no list changes under a reader.                                     *)

(* A signal in destruction has no other call, and no call works on a dead  *)
(* signal: what C++ asks of the program (ObjectsLive) lasts as long as the *)
(* call does.                                                              *)
DestroyAlone ==
  \A c, d \in Calls :
    c # d /\ call[c].op = "destroySignal" /\ call[d].op \in OnSignal =>
      call[c].sig # call[d].sig

SignalsLive ==
  \A c \in Calls : call[c].op \in OnSignal => signalLife[call[c].sig] = "alive"

LInv == TypeOK /\ ListLocksExact /\ DestroyAlone /\ SignalsLive

(* The other calls stand still. *)
OthersStay(c) == \A d \in Calls : d # c => call'[d] = call[d]

(* The step neither enters nor leaves the scope of a lock. *)
ScopeKept(c) ==
  /\ OthersStay(c)
  /\ HoldsRead(c)' <=> HoldsRead(c)
  /\ HoldsWrite(c)' <=> HoldsWrite(c)
  /\ HoldsRead(c) \/ HoldsWrite(c) => call'[c].sig = call[c].sig

-----------------------------------------------------------------------------
LEMMA LocksKept ==
  ASSUME LInv, NEW c \in Calls, ScopeKept(c), UNCHANGED lockVars
  PROVE  ListLocksExact'
<1>1. readers' = readers /\ writer' = writer
  BY DEF lockVars
<1>2. \A sg \in Signals, d \in Calls :
        /\ (HoldsRead(d) /\ call[d].sig = sg)' <=> HoldsRead(d) /\ call[d].sig = sg
        /\ (HoldsWrite(d) /\ call[d].sig = sg)' <=> HoldsWrite(d) /\ call[d].sig = sg
  <2> SUFFICES ASSUME NEW sg \in Signals, NEW d \in Calls
      PROVE  /\ (HoldsRead(d) /\ call[d].sig = sg)' <=> HoldsRead(d) /\ call[d].sig = sg
             /\ (HoldsWrite(d) /\ call[d].sig = sg)' <=> HoldsWrite(d) /\ call[d].sig = sg
    OBVIOUS
  <2>1. CASE d = c
    BY <2>1 DEF ScopeKept
  <2>2. CASE d # c
    BY <2>2 DEF ScopeKept, OthersStay, HoldsRead, HoldsWrite
  <2>3. QED
    BY <2>1, <2>2
<1>3. QED
  BY <1>1, <1>2 DEF LInv, ListLocksExact

(* A step that leaves the signals alone and either goes on in its method   *)
(* or returns.                                                             *)
LEMMA SignalsKept ==
  ASSUME LInv, NEW c \in Calls, OthersStay(c), signalLife' = signalLife,
         \/ call'[c].op = call[c].op /\ (call[c].op \in OnSignal => call'[c].sig = call[c].sig)
         \/ call'[c].op = "none"
  PROVE  DestroyAlone' /\ SignalsLive'
<1>1. "none" \notin OnSignal /\ "destroySignal" \in OnSignal
  BY DEF OnSignal, ReadOps, Loops
<1>2. \A d \in Calls : call'[d].op \in OnSignal =>
        call'[d].op = call[d].op /\ call'[d].sig = call[d].sig
  BY <1>1 DEF OthersStay
<1>3. QED
  BY <1>1, <1>2 DEF LInv, DestroyAlone, SignalsLive

-----------------------------------------------------------------------------
LEMMA InitLocks == Init => LInv
<1> SUFFICES ASSUME Init PROVE LInv
  OBVIOUS
<1>1. TypeOK
  BY InitTyped
<1>2. \A c \in Calls : call[c].pc = "idle" /\ call[c].op = "none"
  BY DEF Init, Idle
<1>3. \A c \in Calls : c # None
  BY ConstantsAssumption
<1>4. "none" \notin OnSignal
  BY DEF OnSignal, ReadOps, Loops
<1>5. ListLocksExact
  BY <1>2, <1>3 DEF Init, ListLocksExact, HoldsRead, HoldsWrite
<1>6. QED
  BY <1>1, <1>2, <1>4, <1>5 DEF LInv, DestroyAlone, SignalsLive

LEMMA BeginLocks ==
  ASSUME LInv, NEW c \in Calls, NEW op \in Ops, NEW a \in Signature(op),
         NEW p \in Calls \cup {None}, Begin(c, op, a[1], a[2], p)
  PROVE  ListLocksExact' /\ DestroyAlone' /\ SignalsLive'
<1>1. /\ OthersStay(c) /\ call[c].pc = "idle"
      /\ call'[c].pc = FirstPc(op) /\ call'[c].op = op /\ call'[c].sig = a[1]
  BY DEF Begin, At, LInv, TypeOK, OthersStay
<1>2. ObjectsLive(op, a[1], a[2]) /\ UNCHANGED <<signalLife, lockVars>>
  BY DEF Begin, Allowed, signalVars
<1>3. op \in OnSignal => a[1] \in Signals /\ a[1] # None
  BY ConstantsAssumption DEF Signature
<1>4. ListLocksExact'
  <2>1. ~HoldsRead(c) /\ ~HoldsWrite(c)
    BY <1>1 DEF HoldsRead, HoldsWrite
  <2>2. /\ FirstPc(op) \in {"assert", "dtor", "release", "slot", "lock"}
        /\ FirstPc(op) = "release" => op = "destroySignal"
    BY DEF FirstPc
  <2>3. ~HoldsRead(c)' /\ ~HoldsWrite(c)'
    BY <1>1, <2>2 DEF HoldsRead, HoldsWrite, Changes
  <2>4. QED
    BY <1>1, <1>2, <2>1, <2>3, LocksKept DEF ScopeKept
<1>5. DestroyAlone'
  <2> SUFFICES ASSUME NEW d \in Calls, NEW e \in Calls, d # e,
                      call'[d].op = "destroySignal", call'[e].op \in OnSignal
               PROVE  call'[d].sig # call'[e].sig
    BY DEF DestroyAlone
  <2>1. "destroySignal" \in OnSignal
    BY DEF OnSignal, Loops
  <2>2. CASE d = c
    BY <1>1, <1>2, <1>3, <2>1, <2>2 DEF OthersStay, ObjectsLive
  <2>3. CASE e = c
    BY <1>1, <1>2, <1>3, <2>1, <2>3 DEF OthersStay, ObjectsLive
  <2>4. CASE d # c /\ e # c
    BY <1>1, <2>4 DEF OthersStay, LInv, DestroyAlone
  <2>5. QED
    BY <2>2, <2>3, <2>4
<1>6. SignalsLive'
  <2> SUFFICES ASSUME NEW d \in Calls, call'[d].op \in OnSignal
               PROVE  signalLife[call'[d].sig] = "alive"
    BY <1>2 DEF SignalsLive
  <2>1. CASE d = c
    BY <1>1, <1>2, <1>3, <2>1 DEF ObjectsLive
  <2>2. CASE d # c
    BY <1>1, <2>2 DEF OthersStay, LInv, SignalsLive
  <2>3. QED
    BY <2>1, <2>2
<1>7. QED
  BY <1>4, <1>5, <1>6

LEMMA LockStepLocks ==
  ASSUME LInv, NEW c \in Calls, LockStep(c)
  PROVE  ListLocksExact' /\ DestroyAlone' /\ SignalsLive'
<1> DEFINE sg == call[c].sig
<1>0. call[c] \in Frame /\ FrameOK(call[c]) /\ call \in [Calls -> Frame]
      /\ readers \in [Signals -> SUBSET Calls]
      /\ writer \in [Signals -> Calls \cup {None}] /\ c # None
  BY FrameFields, ConstantsAssumption DEF LInv, TypeOK
<1>1. sg \in Signals
  BY <1>0 DEF LockStep, AcquireRead, AcquireWrite, Unlock, At, FrameOK
<1>2. OthersStay(c)
  BY <1>0 DEF LockStep, AcquireRead, AcquireWrite, Unlock, Goto, Return, OthersStay
<1>3. signalLife' = signalLife
  BY DEF LockStep, AcquireRead, AcquireWrite, Unlock, signalVars
<1>4. \A d \in Calls : d # c =>
        /\ HoldsRead(d)' <=> HoldsRead(d)
        /\ HoldsWrite(d)' <=> HoldsWrite(d)
        /\ call'[d].sig = call[d].sig
  BY <1>2 DEF OthersStay, HoldsRead, HoldsWrite
<1>5. CASE AcquireRead(c)
  <2>1. /\ call'[c].op = call[c].op /\ call'[c].sig = sg
        /\ call'[c].pc \in {"iterate", "unlock"}
        /\ call[c].op \in ReadOps /\ call[c].pc = "lock"
    BY <1>0, <1>5 DEF AcquireRead, Goto, At, Frame
  <2>2. ~HoldsRead(c) /\ ~HoldsWrite(c) /\ HoldsRead(c)' /\ ~HoldsWrite(c)'
    BY <2>1 DEF HoldsRead, HoldsWrite, ReadOps, Changes
  <2>3. writer[sg] = None /\ writer' = writer
        /\ readers' = [readers EXCEPT ![sg] = @ \cup {c}]
    BY <1>5 DEF AcquireRead, ReadFree
  <2>4. ListLocksExact'
    <3> SUFFICES ASSUME NEW s \in Signals
        PROVE  /\ \A d \in Calls : d \in readers'[s] <=> HoldsRead(d)' /\ call'[d].sig = s
               /\ \A d \in Calls : writer'[s] = d <=> HoldsWrite(d)' /\ call'[d].sig = s
               /\ writer'[s] # None => readers'[s] = {}
      BY DEF ListLocksExact
    <3>1. /\ \A d \in Calls : d \in readers[s] <=> HoldsRead(d) /\ call[d].sig = s
          /\ \A d \in Calls : writer[s] = d <=> HoldsWrite(d) /\ call[d].sig = s
          /\ writer[s] # None => readers[s] = {}
      BY DEF LInv, ListLocksExact
    <3>2. readers'[s] = IF s = sg THEN readers[s] \cup {c} ELSE readers[s]
      BY <1>0, <2>3
    <3>3. QED
      BY <1>4, <2>1, <2>2, <2>3, <3>1, <3>2
  <2>5. QED
    BY <1>2, <1>3, <2>1, <2>4, SignalsKept
<1>6. CASE AcquireWrite(c)
  <2>1. /\ call'[c].op = call[c].op /\ call'[c].sig = sg
        /\ call'[c].pc \in {"connect", "release", "unlink"}
        /\ call[c].op \in {"add", "remove", "removeAll", "destroySlot"}
        /\ call[c].pc = "lock"
    <3>1. call[c].pc = "lock" /\ call[c].op \notin ReadOps
      BY <1>6 DEF AcquireWrite, At
    <3>2. call[c].op \in {"add", "remove", "removeAll", "destroySlot"}
      BY <1>0, <3>1 DEF FrameOK, PcsOf, Frame, Ops, OnSlot, OnSignal, Changes,
                        SlotOps, ReadOps, Loops
    <3>3. QED
      BY <1>0, <1>6, <3>1, <3>2 DEF AcquireWrite, Frame
  <2>2. ~HoldsRead(c) /\ ~HoldsWrite(c) /\ ~HoldsRead(c)' /\ HoldsWrite(c)'
    BY <2>1 DEF HoldsRead, HoldsWrite, ReadOps, Changes
  <2>3. /\ writer[sg] = None /\ readers[sg] = {} /\ readers' = readers
        /\ writer' = [writer EXCEPT ![sg] = c]
    BY <1>6 DEF AcquireWrite, WriteFree
  <2>4. ListLocksExact'
    <3> SUFFICES ASSUME NEW s \in Signals
        PROVE  /\ \A d \in Calls : d \in readers'[s] <=> HoldsRead(d)' /\ call'[d].sig = s
               /\ \A d \in Calls : writer'[s] = d <=> HoldsWrite(d)' /\ call'[d].sig = s
               /\ writer'[s] # None => readers'[s] = {}
      BY DEF ListLocksExact
    <3>1. /\ \A d \in Calls : d \in readers[s] <=> HoldsRead(d) /\ call[d].sig = s
          /\ \A d \in Calls : writer[s] = d <=> HoldsWrite(d) /\ call[d].sig = s
          /\ writer[s] # None => readers[s] = {}
      BY DEF LInv, ListLocksExact
    <3>2. writer'[s] = IF s = sg THEN c ELSE writer[s]
      BY <1>0, <2>3
    <3>3. \A d \in Calls : d # None
      BY ConstantsAssumption
    <3>4. QED
      BY <1>4, <2>1, <2>2, <2>3, <3>1, <3>2, <3>3
  <2>5. QED
    BY <1>2, <1>3, <2>1, <2>4, SignalsKept
<1>7. CASE Unlock(c)
  <2>1. /\ call'[c].pc \in {"idle", "free"}
        /\ \/ call'[c].op = call[c].op /\ call'[c].sig = sg
           \/ call'[c].op = "none"
    BY <1>0, <1>7 DEF Unlock, Goto, Return, Idle, Frame
  <2>2. ~HoldsRead(c)' /\ ~HoldsWrite(c)'
    BY <2>1 DEF HoldsRead, HoldsWrite
  <2>3. /\ readers' = [readers EXCEPT ![sg] = @ \ {c}]
        /\ writer' = [writer EXCEPT ![sg] = IF @ = c THEN None ELSE @]
    BY <1>7 DEF Unlock, ReleaseLock
  <2>4. ListLocksExact'
    <3> SUFFICES ASSUME NEW s \in Signals
        PROVE  /\ \A d \in Calls : d \in readers'[s] <=> HoldsRead(d)' /\ call'[d].sig = s
               /\ \A d \in Calls : writer'[s] = d <=> HoldsWrite(d)' /\ call'[d].sig = s
               /\ writer'[s] # None => readers'[s] = {}
      BY DEF ListLocksExact
    <3>1. /\ \A d \in Calls : d \in readers[s] <=> HoldsRead(d) /\ call[d].sig = s
          /\ \A d \in Calls : writer[s] = d <=> HoldsWrite(d) /\ call[d].sig = s
          /\ writer[s] # None => readers[s] = {}
      BY DEF LInv, ListLocksExact
    <3>2. /\ readers'[s] = IF s = sg THEN readers[s] \ {c} ELSE readers[s]
          /\ writer'[s] = IF s = sg /\ writer[s] = c THEN None ELSE writer[s]
      BY <1>0, <2>3
    <3>3. \A d \in Calls : d # None
      BY ConstantsAssumption
    <3>4. QED
      BY <1>4, <2>2, <3>1, <3>2, <3>3
  <2>5. QED
    BY <1>2, <1>3, <2>1, <2>4, SignalsKept
<1>8. QED
  BY <1>5, <1>6, <1>7 DEF LockStep

(* Within a method, from a place to another with the same locks. *)
LEMMA StayLocks ==
  ASSUME LInv, NEW c \in Calls, OthersStay(c), UNCHANGED <<lockVars, signalLife>>,
         call'[c].op = call[c].op,
         call[c].op \in OnSignal \/ HoldsWrite(c) => call'[c].sig = call[c].sig,
         HoldsRead(c)' <=> HoldsRead(c), HoldsWrite(c)' <=> HoldsWrite(c)
  PROVE  ListLocksExact' /\ DestroyAlone' /\ SignalsLive' /\ ScopeKept(c)
<1>1. HoldsRead(c) => call[c].op \in OnSignal
  BY DEF HoldsRead, OnSignal
<1>2. QED
  BY <1>1, LocksKept, SignalsKept DEF ScopeKept

LEMMA AddStepLocks ==
  ASSUME LInv, NEW c \in Calls, AddStep(c)
  PROVE  ListLocksExact' /\ DestroyAlone' /\ SignalsLive' /\ ScopeKept(c)
<1>0. call[c] \in Frame /\ call \in [Calls -> Frame] /\ call[c].op = "add"
  BY FrameFields, MethodAt DEF LInv, TypeOK, AddStep, CheckAttached, ConnectSignal, Insert, At
<1>1. UNCHANGED <<lockVars, signalLife>>
  BY DEF AddStep, CheckAttached, ConnectSignal, Insert, signalVars
<1>2. /\ OthersStay(c) /\ call'[c].op = call[c].op /\ call'[c].sig = call[c].sig
      /\ \/ call[c].pc = "assert" /\ call'[c].pc = "lock"
         \/ call[c].pc = "connect" /\ call'[c].pc = "insert"
         \/ call[c].pc = "insert" /\ call'[c].pc = "unlock"
  BY <1>0 DEF AddStep, CheckAttached, ConnectSignal, Insert, At, Goto, OthersStay, Frame
<1>3. (HoldsRead(c)' <=> HoldsRead(c)) /\ (HoldsWrite(c)' <=> HoldsWrite(c))
  BY <1>0, <1>2 DEF HoldsRead, HoldsWrite, ReadOps, Changes
<1>4. QED
  BY <1>1, <1>2, <1>3, StayLocks

LEMMA DispatchStepLocks ==
  ASSUME LInv, NEW c \in Calls, DispatchStep(c)
  PROVE  ListLocksExact' /\ DestroyAlone' /\ SignalsLive' /\ ScopeKept(c)
<1>0. /\ call[c] \in Frame /\ call \in [Calls -> Frame] /\ call[c].op = "dispatch"
      /\ call[c].pc \in {"iterate", "callback"}
  BY FrameFields, MethodAt DEF LInv, TypeOK, DispatchStep, Visit, FinishCallback, EndDispatch, At
<1>1. UNCHANGED <<lockVars, signalLife>>
  BY DEF DispatchStep, Visit, FinishCallback, EndDispatch, signalVars, lockVars
<1>2. /\ OthersStay(c) /\ call'[c].op = call[c].op /\ call'[c].sig = call[c].sig
      /\ call'[c].pc \in {"iterate", "callback", "complete", "unlock"}
  <2>1. CASE Visit(c)
    BY <1>0, <2>1 DEF Visit, At, OthersStay, Frame
  <2>2. CASE FinishCallback(c)
    BY <1>0, <2>2 DEF FinishCallback, OthersStay, Frame
  <2>3. CASE EndDispatch(c)
    BY <1>0, <2>3 DEF EndDispatch, OthersStay, Frame
  <2>4. QED
    BY <2>1, <2>2, <2>3 DEF DispatchStep
<1>3. (HoldsRead(c)' <=> HoldsRead(c)) /\ (HoldsWrite(c)' <=> HoldsWrite(c))
  BY <1>0, <1>2 DEF HoldsRead, HoldsWrite, ReadOps, Changes
<1>4. QED
  BY <1>1, <1>2, <1>3, StayLocks

LEMMA SlotStepLocks ==
  ASSUME LInv, NEW c \in Calls, SlotStep(c)
  PROVE  ListLocksExact' /\ DestroyAlone' /\ SignalsLive' /\ ScopeKept(c)
<1>0. call \in [Calls -> Frame] /\ call[c].pc = "slot"
  BY DEF LInv, TypeOK, SlotStep, SetActive, Attach, At
<1>1. UNCHANGED <<lockVars, signalLife>>
  BY DEF SlotStep, SetActive, Attach, signalVars, lockVars
<1>2. OthersStay(c) /\ call'[c] = Idle
  BY <1>0 DEF SlotStep, SetActive, Attach, Return, OthersStay
<1>3. /\ ~HoldsRead(c) /\ ~HoldsWrite(c) /\ ~HoldsRead(c)' /\ ~HoldsWrite(c)'
      /\ call'[c].op = "none"
  BY <1>0, <1>2 DEF HoldsRead, HoldsWrite, Idle
<1>4. QED
  BY <1>1, <1>2, <1>3, LocksKept, SignalsKept DEF ScopeKept

LEMMA DestroyStepLocks ==
  ASSUME LInv, NEW c \in Calls, DestroyStep(c)
  PROVE  ListLocksExact' /\ DestroyAlone' /\ SignalsLive' /\ ScopeKept(c)
<1>0. /\ call[c] \in Frame /\ call \in [Calls -> Frame] /\ call[c].op = "destroySlot"
      /\ call[c].pc \in {"dtor", "detach", "free"}
  BY FrameFields, MethodAt DEF LInv, TypeOK, DestroyStep, DestroyFunction, Detach, Free, At
<1>1. UNCHANGED <<lockVars, signalLife>>
  BY DEF DestroyStep, DestroyFunction, Detach, Free, signalVars, lockVars
<1>2. /\ OthersStay(c) /\ call'[c].pc \in {"detach", "lock", "free", "idle"}
      /\ call'[c].op \in {call[c].op, "none"}
  <2>1. CASE DestroyFunction(c)
    BY <1>0, <2>1 DEF DestroyFunction, Goto, OthersStay, Frame
  <2>2. CASE Detach(c)
    BY <1>0, <2>2 DEF Detach, AfterDetach, OthersStay, Frame
  <2>3. CASE Free(c)
    BY <1>0, <2>3 DEF Free, Return, Idle, OthersStay
  <2>4. QED
    BY <2>1, <2>2, <2>3 DEF DestroyStep
<1>3. "destroySlot" \notin OnSignal
  BY DEF OnSignal, ReadOps, Loops
<1>4. /\ ~HoldsRead(c) /\ ~HoldsWrite(c) /\ ~HoldsRead(c)' /\ ~HoldsWrite(c)'
  BY <1>0, <1>2 DEF HoldsRead, HoldsWrite
<1>5. QED
  BY <1>0, <1>1, <1>2, <1>3, <1>4, LocksKept, SignalsKept DEF ScopeKept

LEMMA RemoveStepLocks ==
  ASSUME LInv, NEW c \in Calls, RemoveStep(c)
  PROVE  ListLocksExact' /\ DestroyAlone' /\ SignalsLive' /\ ScopeKept(c)
<1> DEFINE op == call[c].op
<1>0. /\ call[c] \in Frame /\ call \in [Calls -> Frame]
      /\ call[c].pc \in {"unlink", "release", "released"}
      /\ op \in {"remove", "destroySlot", "removeAll", "destroySignal"}
      /\ call[c].pc = "unlink" => op \in {"remove", "destroySlot"}
  BY FrameFields, MethodAt
  DEF LInv, TypeOK, RemoveStep, Unlink, ReleaseSignal, UnlockSlot, Clear, At
<1>1. CASE Clear(c) /\ op # "removeAll"
  <2>1. /\ OthersStay(c) /\ call'[c] = Idle /\ op = "destroySignal"
        /\ signalLife' = [signalLife EXCEPT ![call[c].sig] = "dead"]
        /\ UNCHANGED lockVars
    BY <1>0, <1>1 DEF Clear, AtEnd, Loops, Return, OthersStay
  <2>2. /\ ~HoldsRead(c) /\ ~HoldsWrite(c) /\ ~HoldsRead(c)' /\ ~HoldsWrite(c)'
        /\ call'[c].op = "none"
    BY <2>1 DEF HoldsRead, HoldsWrite, Idle, ReadOps, Changes
  <2>3. ScopeKept(c) /\ ListLocksExact'
    BY <2>1, <2>2, LocksKept DEF ScopeKept
  <2>4. "none" \notin OnSignal /\ "destroySignal" \in OnSignal
    BY DEF OnSignal, ReadOps, Loops
  <2>5. \A d \in Calls : call'[d].op \in OnSignal =>
          d # c /\ call'[d] = call[d] /\ call[d].sig # call[c].sig
    BY <2>1, <2>2, <2>4 DEF OthersStay, LInv, DestroyAlone
  <2>6. DestroyAlone'
    BY <2>4, <2>5 DEF LInv, DestroyAlone
  <2>7. \A sg \in Signals : sg # call[c].sig => signalLife'[sg] = signalLife[sg]
    BY <2>1 DEF LInv, TypeOK
  <2>8. \A d \in Calls : call[d].op \in OnSignal => call[d].sig \in Signals
    BY DEF LInv, TypeOK, FrameOK
  <2>9. SignalsLive'
    BY <2>5, <2>7, <2>8 DEF LInv, SignalsLive
  <2>10. QED
    BY <2>3, <2>6, <2>9
<1>2. CASE Unlink(c) \/ ReleaseSignal(c) \/ UnlockSlot(c) \/ (Clear(c) /\ op = "removeAll")
  <2>1. UNCHANGED <<lockVars, signalLife>>
    BY <1>2 DEF Unlink, ReleaseSignal, UnlockSlot, Clear, signalVars
  <2>2. /\ OthersStay(c) /\ call'[c].op = op /\ call'[c].sig = call[c].sig
        /\ call'[c].pc \in {"release", "released", "unlock"}
        /\ call'[c].pc = "unlock" => op # "destroySignal"
    <3>1. CASE Unlink(c)
      BY <1>0, <3>1 DEF Unlink, Goto, OthersStay, Frame
    <3>2. CASE ReleaseSignal(c)
      BY <1>0, <3>2 DEF ReleaseSignal, OthersStay, Frame
    <3>3. CASE UnlockSlot(c)
      BY <1>0, <3>3 DEF UnlockSlot, Goto, OthersStay, Frame, Loops
    <3>4. CASE Clear(c) /\ op = "removeAll"
      BY <1>0, <3>4 DEF Clear, OthersStay, Frame
    <3>5. QED
      BY <1>2, <3>1, <3>2, <3>3, <3>4
  <2>3. (HoldsRead(c)' <=> HoldsRead(c)) /\ (HoldsWrite(c)' <=> HoldsWrite(c))
    BY <1>0, <2>2 DEF HoldsRead, HoldsWrite, ReadOps, Changes
  <2>4. QED
    BY <2>1, <2>2, <2>3, StayLocks
<1>3. QED
  BY <1>1, <1>2 DEF RemoveStep

LEMMA NewObjectLocks ==
  ASSUME LInv, (\E s \in Slots : NewSlot(s)) \/ (\E sg \in Signals : NewSignal(sg))
  PROVE  ListLocksExact' /\ DestroyAlone' /\ SignalsLive'
<1>1. call' = call /\ readers' = readers /\ writer' = writer
  BY DEF NewSlot, NewSignal, lockVars
<1>2. \A sg \in Signals : signalLife[sg] = "alive" => signalLife'[sg] = "alive"
  BY DEF NewSlot, NewSignal, signalVars, LInv, TypeOK
<1>3. \A d \in Calls : call[d].op \in OnSignal => call[d].sig \in Signals
  BY DEF LInv, TypeOK, FrameOK
<1>4. QED
  BY <1>1, <1>2, <1>3
  DEF LInv, ListLocksExact, DestroyAlone, SignalsLive, HoldsRead, HoldsWrite

LEMMA NextLocks == LInv /\ [Next]_vars => LInv'
<1> SUFFICES ASSUME LInv, [Next]_vars PROVE LInv'
  OBVIOUS
<1>1. TypeOK'
  BY NextTyped DEF LInv
<1>2. ASSUME NEW c \in Calls, ThreadCalls(c) PROVE LInv'
  <2>1. PICK op \in ThreadOps : \E a \in Signature(op) : Begin(c, op, a[1], a[2], None)
    BY <1>2 DEF ThreadCalls
  <2>2. QED
    BY <1>1, <2>1, BeginLocks, ConstantsAssumption DEF LInv
<1>3. ASSUME NEW c \in Calls, CallbackCalls(c) PROVE LInv'
  <2>1. PICK p \in Calls, op \in CallbackOps :
          \E a \in Signature(op) : Begin(c, op, a[1], a[2], p)
    BY <1>3 DEF CallbackCalls
  <2>2. QED
    BY <1>1, <2>1, BeginLocks, ConstantsAssumption DEF LInv
<1>4. ASSUME NEW c \in Calls, Step(c) PROVE LInv'
  BY <1>1, <1>4, LockStepLocks, AddStepLocks, RemoveStepLocks, DispatchStepLocks,
     SlotStepLocks, DestroyStepLocks DEF Step, LInv
<1>5. CASE UNCHANGED vars
  BY <1>1, <1>5 DEF vars, signalVars, lockVars, LInv, ListLocksExact, DestroyAlone,
                    SignalsLive, HoldsRead, HoldsWrite
<1>6. QED
  BY <1>1, <1>2, <1>3, <1>4, <1>5, NewObjectLocks DEF Next, LInv

(* The read-write lock of each signal is held by exactly the calls between *)
(* the constructor and the destructor of their ReadWriteLock, a writer is  *)
(* alone, and whoever destroys a signal is alone in calling its methods.   *)
THEOREM ListLocksCorrect == Spec => [](ListLocksExact /\ DestroyAlone /\ SignalsLive)
<1>1. LInv => ListLocksExact /\ DestroyAlone /\ SignalsLive
  BY DEF LInv
<1>2. QED
  BY <1>1, InitLocks, NextLocks, PTL DEF Spec

-----------------------------------------------------------------------------
(* A step that changes a list is made by the writer of its lock, or it     *)
(* destroys or constructs the signal: nobody reads the list then.          *)
LEMMA ListChange ==
  ASSUME LInv, Next, NEW sg \in Signals, readers[sg] # {}
  PROVE  mlistSlots'[sg] = mlistSlots[sg]
<1>0. PICK r \in Calls : r \in readers[sg]
  BY DEF LInv, TypeOK
<1>1. HoldsRead(r) /\ call[r].sig = sg
  BY <1>0 DEF LInv, ListLocksExact
<1>2. call[r].op \in OnSignal /\ call[r].op # "destroySignal"
  BY <1>1 DEF HoldsRead, ReadOps, OnSignal
<1>3. writer[sg] = None
  BY DEF LInv, ListLocksExact
<1>4. ASSUME NEW c \in Calls, call[c].sig = sg PROVE ~HoldsWrite(c)
  BY <1>3, <1>4, ConstantsAssumption DEF LInv, ListLocksExact
<1>5. ASSUME NEW c \in Calls, AddStep(c) \/ RemoveStep(c)
      PROVE  mlistSlots'[sg] = mlistSlots[sg]
  <2> DEFINE own == call[c].sig
  <2>1. \/ mlistSlots' = mlistSlots
        \/ \E new : mlistSlots' = [mlistSlots EXCEPT ![own] = new] /\ Insert(c)
        \/ \E new : mlistSlots' = [mlistSlots EXCEPT ![own] = new] /\ Unlink(c)
        \/ \E new : mlistSlots' = [mlistSlots EXCEPT ![own] = new] /\ Clear(c)
    BY <1>5 DEF AddStep, RemoveStep, CheckAttached, ConnectSignal, Insert, Unlink,
                ReleaseSignal, UnlockSlot, Clear, signalVars
  <2>2. Insert(c) \/ Unlink(c) => HoldsWrite(c)
    BY MethodAt DEF Insert, Unlink, At, HoldsWrite, Changes, LInv
  <2>3. Clear(c) => HoldsWrite(c) \/ call[c].op = "destroySignal"
    BY MethodAt DEF Clear, At, AtEnd, Loops, HoldsWrite, LInv
  <2>4. call[c].op = "destroySignal" => own # sg
    BY <1>1, <1>2 DEF LInv, DestroyAlone
  <2>5. mlistSlots' = mlistSlots \/ own # sg
    BY <1>4, <2>1, <2>2, <2>3, <2>4
  <2>6. QED
    BY <2>1, <2>5 DEF LInv, TypeOK
<1>6. ASSUME NEW new \in Signals, NewSignal(new)
      PROVE  mlistSlots'[sg] = mlistSlots[sg]
  <2>1. signalLife[sg] = "alive"
    BY <1>1, <1>2 DEF LInv, SignalsLive
  <2>2. QED
    BY <1>6, <2>1 DEF NewSignal, LInv, TypeOK
<1>7. ASSUME NEW c \in Calls,
             \/ ThreadCalls(c) \/ CallbackCalls(c) \/ LockStep(c)
             \/ DispatchStep(c) \/ SlotStep(c) \/ DestroyStep(c)
      PROVE  mlistSlots' = mlistSlots
  BY <1>7 DEF ThreadCalls, CallbackCalls, Begin, LockStep, AcquireRead, AcquireWrite,
     Unlock, DispatchStep, Visit, FinishCallback, EndDispatch, SlotStep, SetActive,
     Attach, DestroyStep, DestroyFunction, Detach, Free, signalVars
<1>8. ASSUME NEW s \in Slots, NewSlot(s) PROVE mlistSlots' = mlistSlots
  BY <1>8 DEF NewSlot, signalVars
<1>9. QED
  BY <1>5, <1>6, <1>7, <1>8 DEF Next, Step

(* dispatch, hasSlot and numSlots read a list that stands still, however   *)
(* many threads there are and whatever they do to signals and slots.       *)
THEOREM ReadersUndisturbed == Spec => ListStableForReaders
<1>1. LInv /\ [Next]_vars =>
        [\A sg \in Signals : readers[sg] # {} => mlistSlots'[sg] = mlistSlots[sg]]_vars
  BY ListChange
<1>2. QED
  BY <1>1, InitLocks, NextLocks, PTL DEF Spec, ListStableForReaders

-----------------------------------------------------------------------------
(* The calls as guards of the abstract lock of a signal.                   *)
LEMMA GuardMoves ==
  ASSUME NEW sg \in Signals, NEW c \in Calls, OthersStay(c)
  PROVE  GuardModes(sg)' = [GuardModes(sg) EXCEPT ![c] = GuardMode(sg, c)']
<1>1. \A d \in Calls : d # c => GuardMode(sg, d)' = GuardMode(sg, d)
  BY DEF OthersStay, GuardMode, At, HoldsRead, HoldsWrite
<1>2. QED
  BY <1>1 DEF GuardModes

(* Steps of one call that the abstract lock allows.                        *)
LEMMA GuardSteps ==
  ASSUME NEW sg \in Signals, NEW c \in Calls, OthersStay(c),
         \/ GuardMode(sg, c)' = GuardMode(sg, c)
         \/ GuardMode(sg, c) = "out" /\ GuardMode(sg, c)' \in {"wantRead", "wantWrite"}
         \/ GuardMode(sg, c) \in {"reading", "writing"} /\ GuardMode(sg, c)' = "out"
         \/ /\ GuardMode(sg, c) = "wantRead" /\ GuardMode(sg, c)' = "reading"
            /\ \A d \in Calls : GuardMode(sg, d) # "writing"
         \/ /\ GuardMode(sg, c) = "wantWrite" /\ GuardMode(sg, c)' = "writing"
            /\ \A d \in Calls : GuardMode(sg, d) \notin {"reading", "writing"}
  PROVE  [Lock(sg)!Next]_(GuardModes(sg))
<1>1. GuardModes(sg)' = [GuardModes(sg) EXCEPT ![c] = GuardMode(sg, c)']
  BY GuardMoves
<1>2. /\ GuardModes(sg)[c] = GuardMode(sg, c)
      /\ GuardModes(sg) = [GuardModes(sg) EXCEPT ![c] = GuardModes(sg)[c]]
  BY DEF GuardModes
<1>3. CASE GuardMode(sg, c)' = GuardMode(sg, c)
  BY <1>1, <1>2, <1>3
<1>4. CASE GuardMode(sg, c) = "out" /\ GuardMode(sg, c)' \in {"wantRead", "wantWrite"}
  <2>1. Lock(sg)!Request(c)
    BY <1>1, <1>2, <1>4 DEF Lock!Request, Lock!Move
  <2>2. QED
    BY <2>1 DEF Lock!Next
<1>5. CASE GuardMode(sg, c) \in {"reading", "writing"} /\ GuardMode(sg, c)' = "out"
  <2>1. Lock(sg)!Release(c)
    BY <1>1, <1>2, <1>5 DEF Lock!Release, Lock!Move
  <2>2. QED
    BY <2>1 DEF Lock!Next
<1>6. CASE /\ GuardMode(sg, c) = "wantRead" /\ GuardMode(sg, c)' = "reading"
           /\ \A d \in Calls : GuardMode(sg, d) # "writing"
  <2>1. Lock(sg)!AcquireRead(c)
    BY <1>1, <1>2, <1>6 DEF Lock!AcquireRead, Lock!Move, Lock!Writers, GuardModes
  <2>2. QED
    BY <2>1 DEF Lock!Next
<1>7. CASE /\ GuardMode(sg, c) = "wantWrite" /\ GuardMode(sg, c)' = "writing"
           /\ \A d \in Calls : GuardMode(sg, d) \notin {"reading", "writing"}
  <2>1. Lock(sg)!AcquireWrite(c)
    BY <1>1, <1>2, <1>7
    DEF Lock!AcquireWrite, Lock!Move, Lock!Readers, Lock!Writers, GuardModes
  <2>2. QED
    BY <2>1 DEF Lock!Next
<1>8. QED
  BY <1>3, <1>4, <1>5, <1>6, <1>7

(* The locks of the specification tell where the guards are.               *)
LEMMA GuardHolds ==
  ASSUME LInv, NEW sg \in Signals
  PROVE  /\ writer[sg] = None => \A d \in Calls : GuardMode(sg, d) # "writing"
         /\ readers[sg] = {} => \A d \in Calls : GuardMode(sg, d) # "reading"
<1>1. \A d \in Calls : d # None
  BY ConstantsAssumption
<1>2. QED
  BY <1>1 DEF LInv, ListLocksExact, GuardMode

LEMMA BeginGuards ==
  ASSUME LInv, NEW sg \in Signals, NEW c \in Calls, NEW op \in Ops,
         NEW a \in Signature(op), NEW p, Begin(c, op, a[1], a[2], p)
  PROVE  [Lock(sg)!Next]_(GuardModes(sg))
<1>1. /\ OthersStay(c) /\ call[c].pc = "idle"
      /\ call'[c].pc = FirstPc(op) /\ call'[c].op = op /\ call'[c].sig = a[1]
  BY DEF Begin, At, LInv, TypeOK, OthersStay
<1>2. GuardMode(sg, c) = "out"
  BY <1>1 DEF GuardMode, At, HoldsRead, HoldsWrite
<1>3. /\ FirstPc(op) \in {"assert", "dtor", "release", "slot", "lock"}
      /\ FirstPc(op) = "release" => op = "destroySignal"
  BY DEF FirstPc
<1>4. ~HoldsRead(c)' /\ ~HoldsWrite(c)'
  BY <1>1, <1>3 DEF HoldsRead, HoldsWrite, Changes
<1>5. GuardMode(sg, c)' \in {"out", "wantRead", "wantWrite"}
  BY <1>4 DEF GuardMode
<1>6. QED
  BY <1>1, <1>2, <1>5, GuardSteps

LEMMA StepGuards ==
  ASSUME LInv, NEW sg \in Signals, NEW c \in Calls, Step(c)
  PROVE  [Lock(sg)!Next]_(GuardModes(sg))
<1>0. call[c] \in Frame /\ FrameOK(call[c]) /\ call \in [Calls -> Frame]
  BY FrameFields DEF LInv, TypeOK
<1>1. CASE AcquireRead(c)
  <2>1. /\ OthersStay(c)
        /\ call'[c].op = call[c].op /\ call'[c].sig = call[c].sig
        /\ call'[c].pc \in {"iterate", "unlock"}
        /\ call[c].op \in ReadOps /\ call[c].pc = "lock"
    BY <1>0, <1>1 DEF AcquireRead, Goto, At, Frame, OthersStay
  <2>2. CASE call[c].sig = sg
    <3>1. GuardMode(sg, c) = "wantRead" /\ GuardMode(sg, c)' = "reading"
      BY <2>1, <2>2 DEF GuardMode, At, HoldsRead
    <3>2. writer[sg] = None
      BY <1>1, <2>2 DEF AcquireRead, ReadFree
    <3>3. QED
      BY <2>1, <3>1, <3>2, GuardHolds, GuardSteps
  <2>3. CASE call[c].sig # sg
    BY <2>1, <2>3, GuardSteps DEF GuardMode
  <2>4. QED
    BY <2>2, <2>3
<1>2. CASE AcquireWrite(c)
  <2>1. /\ OthersStay(c)
        /\ call'[c].op = call[c].op /\ call'[c].sig = call[c].sig
        /\ call'[c].pc \in {"connect", "release", "unlink"}
        /\ call[c].op \in {"add", "remove", "removeAll", "destroySlot"}
        /\ call[c].pc = "lock"
    <3>1. call[c].pc = "lock" /\ call[c].op \notin ReadOps
      BY <1>2 DEF AcquireWrite, At
    <3>2. call[c].op \in {"add", "remove", "removeAll", "destroySlot"}
      BY <1>0, <3>1 DEF FrameOK, PcsOf, Frame, Ops, OnSlot, OnSignal, Changes,
                        SlotOps, ReadOps, Loops
    <3>3. QED
      BY <1>0, <1>2, <3>1, <3>2 DEF AcquireWrite, Frame, OthersStay
  <2>2. CASE call[c].sig = sg
    <3>1. GuardMode(sg, c) = "wantWrite" /\ GuardMode(sg, c)' = "writing"
      BY <2>1, <2>2 DEF GuardMode, At, HoldsRead, HoldsWrite, ReadOps, Changes
    <3>2. writer[sg] = None /\ readers[sg] = {}
      BY <1>2, <2>2 DEF AcquireWrite, WriteFree
    <3>3. QED
      BY <2>1, <3>1, <3>2, GuardHolds, GuardSteps
  <2>3. CASE call[c].sig # sg
    BY <2>1, <2>3, GuardSteps DEF GuardMode
  <2>4. QED
    BY <2>2, <2>3
<1>3. CASE Unlock(c)
  <2>1. call[c].pc = "unlock"
    BY <1>3 DEF Unlock, At
  <2>2. call[c].op \in ReadOps \cup Changes \cup {"removeAll"}
    BY <1>0, <2>1 DEF FrameOK, PcsOf, Frame, Ops, OnSlot, OnSignal, Changes,
                      SlotOps, ReadOps, Loops
  <2>3. OthersStay(c) /\ call'[c].pc \in {"free", "idle"}
    BY <1>0, <1>3 DEF Unlock, Goto, Return, Idle, Frame, OthersStay
  <2>4. GuardMode(sg, c)' = "out"
    BY <2>3 DEF GuardMode, At, HoldsRead, HoldsWrite
  <2>5. GuardMode(sg, c) \in {"out", "reading", "writing"}
    BY <2>1 DEF GuardMode, At
  <2>6. QED
    BY <2>3, <2>4, <2>5, GuardSteps
<1>4. CASE \/ AddStep(c) \/ RemoveStep(c) \/ DispatchStep(c)
           \/ SlotStep(c) \/ DestroyStep(c)
  <2>1. ScopeKept(c)
    BY <1>4, AddStepLocks, RemoveStepLocks, DispatchStepLocks, SlotStepLocks, DestroyStepLocks
  <2>2. call[c].pc # "lock"
    BY <1>4 DEF AddStep, RemoveStep, DispatchStep, SlotStep, DestroyStep, CheckAttached,
       ConnectSignal, Insert, Unlink, ReleaseSignal, UnlockSlot, Clear, Visit,
       FinishCallback, EndDispatch, SetActive, Attach, DestroyFunction, Detach, Free, At
  <2>3. CASE HoldsRead(c) \/ HoldsWrite(c)
    <3>1. call'[c].sig = call[c].sig /\ call'[c].pc # "lock"
      BY <2>1, <2>3 DEF ScopeKept, HoldsRead, HoldsWrite
    <3>2. GuardMode(sg, c)' = GuardMode(sg, c)
      BY <2>1, <2>2, <3>1 DEF ScopeKept, GuardMode, At
    <3>3. QED
      BY <2>1, <3>2, GuardSteps DEF ScopeKept
  <2>4. CASE ~HoldsRead(c) /\ ~HoldsWrite(c)
    <3>1. GuardMode(sg, c) = "out"
      BY <2>2, <2>4 DEF GuardMode, At
    <3>2. GuardMode(sg, c)' \in {"out", "wantRead", "wantWrite"}
      BY <2>1, <2>4 DEF ScopeKept, GuardMode
    <3>3. QED
      BY <2>1, <3>1, <3>2, GuardSteps DEF ScopeKept
  <2>5. QED
    BY <2>3, <2>4
<1>5. QED
  BY <1>1, <1>2, <1>3, <1>4 DEF Step, LockStep

LEMMA NextGuards ==
  ASSUME LInv, [Next]_vars, NEW sg \in Signals
  PROVE  [Lock(sg)!Next]_(GuardModes(sg))
<1>1. ASSUME NEW c \in Calls, ThreadCalls(c) PROVE [Lock(sg)!Next]_(GuardModes(sg))
  <2>1. PICK op \in ThreadOps : \E a \in Signature(op) : Begin(c, op, a[1], a[2], None)
    BY <1>1 DEF ThreadCalls
  <2>2. QED
    BY <2>1, BeginGuards, ConstantsAssumption
<1>2. ASSUME NEW c \in Calls, CallbackCalls(c) PROVE [Lock(sg)!Next]_(GuardModes(sg))
  <2>1. PICK p \in Calls, op \in CallbackOps :
          \E a \in Signature(op) : Begin(c, op, a[1], a[2], p)
    BY <1>2 DEF CallbackCalls
  <2>2. QED
    BY <2>1, BeginGuards, ConstantsAssumption
<1>3. ASSUME call' = call PROVE [Lock(sg)!Next]_(GuardModes(sg))
  <2>1. GuardModes(sg)' = GuardModes(sg)
    BY <1>3 DEF GuardModes, GuardMode, At, HoldsRead, HoldsWrite
  <2>2. QED
    BY <2>1
<1>4. ASSUME \/ \E s \in Slots : NewSlot(s)
             \/ \E new \in Signals : NewSignal(new)
             \/ UNCHANGED vars
      PROVE  call' = call
  BY <1>4 DEF NewSlot, NewSignal, vars
<1>5. QED
  BY <1>1, <1>2, <1>3, <1>4, StepGuards DEF Next

(* The calls on a signal, seen as ReadWriteLock guards, take only steps    *)
(* that the abstract lock allows.  ReadWriteMutex implements that lock     *)
(* (ImplementsLockSafely), so readers and writer may stand for it.         *)
THEOREM LockUsedCorrectly == Spec => UsesLock
<1>1. Init => \A sg \in Signals : Lock(sg)!Init
  BY DEF Init, Idle, Lock!Init, GuardModes, GuardMode, At, HoldsRead, HoldsWrite
<1>2. LInv /\ [Next]_vars => [\A sg \in Signals : [Lock(sg)!Next]_(GuardModes(sg))]_vars
  BY NextGuards
<1>3. QED
  BY <1>1, <1>2, InitLocks, NextLocks, PTL DEF Spec, UsesLock
=============================================================================
