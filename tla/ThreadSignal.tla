----------------------------- MODULE ThreadSignal -----------------------------
(***************************************************************************)
(* evil::ThreadSignal and evil::ThreadSlot with their bases SignalBase and *)
(* SlotBase (mbThreadSafe = true): any number of threads adding, removing, *)
(* dispatching, deactivating and destroying signals and slots.             *)
(*                                                                         *)
(* A call is one activation of a method.  It is either made by a thread or *)
(* made by a callback, and then the dispatch that runs the callback is its *)
(* caller and stands still until it returns.  A call is a record with a    *)
(* program counter; every step is one stretch of code between two places   *)
(* where another thread can see or change something the call depends on.   *)
(*                                                                         *)
(* mRWMutex of a signal is the lock that ReadWriteMutex implements, in its *)
(* two abstract fields: who reads and whether somebody writes.             *)
(*                                                                         *)
(* A definition named X_Y is X with the slip Y; nothing uses it.           *)
(***************************************************************************)
EXTENDS SlotList, FiniteSets

CONSTANTS
  Calls,          \* calls that may be in progress at one time
  Signals,        \* addresses of signals, ordered: a subset of Nat
  Slots,          \* addresses of slots
  None,           \* the null pointer
  ThreadOps,      \* methods that threads call
  CallbackOps,    \* methods that callbacks call
  FireOnceArgs,   \* values add, addOnce and derived signals give fire_once
  ClientRules     \* the rules of use that the program keeps (see Allowed)

Rules == {"attached", "quiet", "ordered"}

VARIABLES
  mlistSlots,           \* of each signal
  readers, writer,      \* of each signal: mRWMutex
  signalLife,           \* of each signal: "alive" or "dead"
  mpcSignal,            \* of each slot, like the next five
  mbActive, mbFireOnce, mbFireOnceCompleted,
  hasFunction,          \* mFunction is not empty
  mMutex,               \* the call that holds the slot's mutex, or None
  slotLife,             \* "alive", "noFunction" (half destroyed), "dead"
  call                  \* of each call: its frame

signalVars == <<mlistSlots, signalLife>>
lockVars   == <<readers, writer>>
fieldVars  == <<mpcSignal, mbActive, mbFireOnce, mbFireOnceCompleted>>
slotVars   == <<fieldVars, hasFunction, mMutex, slotLife>>
vars == <<signalVars, lockVars, slotVars, call>>

-----------------------------------------------------------------------------
Changes == {"add", "remove", "destroySlot"}      \* of a slot's attachment
SlotOps == {"setActive", "attach"}               \* take only the slot's mutex
ReadOps == {"dispatch", "query"}                 \* take the read lock
Loops   == {"dispatch", "removeAll", "destroySignal"}

OnSlot   == Changes \cup SlotOps                 \* methods with a slot given
OnSignal == {"add", "remove"} \cup ReadOps \cup Loops
Ops      == OnSlot \cup OnSignal

ASSUME ConstantsAssumption ==
  /\ Signals \subseteq Nat
  /\ None \notin Signals \cup Slots \cup Calls
  /\ ThreadOps \subseteq Ops /\ CallbackOps \subseteq Ops
  /\ FireOnceArgs \subseteq BOOLEAN
  /\ ClientRules \subseteq Rules

FirstPc(op) == CASE op = "add"           -> "assert"
                 [] op = "destroySlot"   -> "dtor"
                 [] op = "destroySignal" -> "release"
                 [] op \in SlotOps       -> "slot"
                 [] OTHER                -> "lock"

Pcs == {"idle", "assert", "lock", "connect", "insert", "unlink", "release",
        "released", "iterate", "callback", "complete", "unlock", "slot",
        "dtor", "detach", "free"}

Frame == [pc : Pcs, op : Ops \cup {"none"}, sig : Signals \cup {None},
          slot : Slots \cup {None}, pos : Nat, completed : BOOLEAN,
          caller : Calls \cup {None}]

Idle == [pc |-> "idle", op |-> "none", sig |-> None, slot |-> None,
         pos |-> 0, completed |-> FALSE, caller |-> None]

Init ==
  /\ mlistSlots = [sg \in Signals |-> <<>>]
  /\ readers = [sg \in Signals |-> {}]
  /\ writer = [sg \in Signals |-> None]
  /\ signalLife = [sg \in Signals |-> "alive"]
  /\ mpcSignal = [s \in Slots |-> None]
  /\ mbActive = [s \in Slots |-> FALSE]
  /\ mbFireOnce = [s \in Slots |-> FALSE]
  /\ mbFireOnceCompleted = [s \in Slots |-> FALSE]
  /\ hasFunction = [s \in Slots |-> FALSE]
  /\ mMutex = [s \in Slots |-> None]
  /\ slotLife = [s \in Slots |-> "alive"]
  /\ call = [c \in Calls |-> Idle]

(* connectSignal takes a priority and drops it: the constructor's 0 stays. *)
miPriority == [s \in Slots |-> 0]

-----------------------------------------------------------------------------
At(c, pc) == call[c].pc = pc

Busy(op) == {d \in Calls : call[d].op = op}

(* The callback that c runs has called a method that has not returned. *)
Suspended(c) == \E d \in Calls : call[d].caller = c

Goto(c, pc) == call' = [call EXCEPT ![c].pc = pc]

Return(c) == call' = [call EXCEPT ![c] = Idle]

-----------------------------------------------------------------------------
(* What the program may call.  The first group is C++: methods of live     *)
(* objects only, and nobody destroys an object whose method is running.    *)
ObjectsLive(op, sg, s) ==
  /\ sg # None => signalLife[sg] = "alive"
  /\ s # None => slotLife[s] = "alive"
  /\ \A d \in Calls :
       /\ sg # None /\ call[d].op \in OnSignal /\ call[d].sig = sg =>
            "destroySignal" \notin {op, call[d].op}
       /\ s # None /\ call[d].op \in OnSlot /\ call[d].slot = s =>
            "destroySlot" \notin {op, call[d].op}

(* "Any sections of code that change the ownership of a slot should have   *)
(* mutex locks placed around them" (slot-base.h), and "slots must be       *)
(* disconnected before adding" (tc-thread-stress-modify.h).                *)
OneOwner(op, s) ==
  op \in Changes =>
    /\ \A d \in Calls : call[d].op \in Changes => call[d].slot # s
    /\ op = "add" => mpcSignal[s] = None

(* remove is called on the signal that has the slot, if one has it. *)
Attached(op, sg, s) == op = "remove" => mpcSignal[s] \in {sg, None}

(* A slot is destroyed only while nobody walks the list it is in. *)
Quiet(op, sg, s) ==
  /\ op = "destroySlot" =>
       \A d \in Calls : call[d].op \in Loops =>
                          s \notin Members(mlistSlots[call[d].sig])
  /\ op \in Loops =>
       \A d \in Busy("destroySlot") : call[d].slot \notin Members(mlistSlots[sg])
  /\ op = "destroySignal" => \A d \in Busy("destroySlot") : call[d].sig # sg

(* A callback uses only signals that come after its own. *)
Ordered(op, sg, p) ==
  p # None => op \in OnSignal \ OnSlot /\ sg > call[p].sig

Allowed(op, sg, s, p) ==
  /\ ObjectsLive(op, sg, s) /\ OneOwner(op, s)
  /\ "attached" \in ClientRules => Attached(op, sg, s)
  /\ "quiet" \in ClientRules => Quiet(op, sg, s)
  /\ "ordered" \in ClientRules => Ordered(op, sg, p)

-----------------------------------------------------------------------------
Begin(c, op, sg, s, p) ==
  /\ At(c, "idle") /\ Allowed(op, sg, s, p)
  /\ call' = [call EXCEPT ![c] =
       [pc |-> FirstPc(op), op |-> op, sig |-> sg, slot |-> s,
        pos |-> IF op = "destroySignal" THEN 1 ELSE 0,
        completed |-> FALSE, caller |-> p]]
  /\ UNCHANGED <<signalVars, lockVars, slotVars>>

Signature(op) == (IF op \in OnSignal THEN Signals ELSE {None})
                   \X (IF op \in OnSlot THEN Slots ELSE {None})

ThreadCalls(c) == \E op \in ThreadOps : \E a \in Signature(op) :
                    Begin(c, op, a[1], a[2], None)

CallbackCalls(c) ==
  \E p \in Calls, op \in CallbackOps :
    /\ At(p, "callback") /\ ~Suspended(p)
    /\ \E a \in Signature(op) : Begin(c, op, a[1], a[2], p)

-----------------------------------------------------------------------------
(* When mRWMutex lets a reader or a writer in (ReadWriteMutex), and when   *)
(* the mutex of a slot can be locked.                                      *)
ReadFree_Always(sg) == TRUE
ReadFree_NoSharing(sg) == writer[sg] = None /\ readers[sg] = {}
ReadFree(sg) == writer[sg] = None

WriteFree_IgnoresReaders(sg) == writer[sg] = None
WriteFree(sg) == writer[sg] = None /\ readers[sg] = {}

SlotFree_Always(s) == TRUE
SlotFree(s) == mMutex[s] = None

ReleaseLock_ReadersOnly(sg, c) ==
  /\ readers' = [readers EXCEPT ![sg] = @ \ {c}]
  /\ UNCHANGED writer

ReleaseLock(sg, c) ==
  /\ readers' = [readers EXCEPT ![sg] = @ \ {c}]
  /\ writer' = [writer EXCEPT ![sg] = IF @ = c THEN None ELSE @]

(* The constructor and the destructor of ReadWriteLock. *)
AcquireRead(c) ==
  LET sg == call[c].sig IN
  /\ At(c, "lock") /\ call[c].op \in ReadOps
  /\ ReadFree(sg)
  /\ readers' = [readers EXCEPT ![sg] = @ \cup {c}]
  /\ IF call[c].op = "dispatch"
     THEN call' = [call EXCEPT ![c].pc = "iterate", ![c].pos = 1]
     ELSE Goto(c, "unlock")
  /\ UNCHANGED <<signalVars, writer, slotVars>>

AcquireWrite(c) ==
  LET sg == call[c].sig IN
  /\ At(c, "lock") /\ call[c].op \notin ReadOps
  /\ WriteFree(sg)
  /\ writer' = [writer EXCEPT ![sg] = c]
  /\ call' = [call EXCEPT
       ![c].pc = CASE call[c].op = "add" -> "connect"
                   [] call[c].op = "removeAll" -> "release"
                   [] OTHER -> "unlink",
       ![c].pos = IF call[c].op = "removeAll" THEN 1 ELSE 0]
  /\ UNCHANGED <<signalVars, readers, slotVars>>

Unlock(c) ==
  /\ At(c, "unlock")
  /\ ReleaseLock(call[c].sig, c)
  /\ IF call[c].op = "destroySlot" THEN Goto(c, "free") ELSE Return(c)
  /\ UNCHANGED <<signalVars, slotVars>>

-----------------------------------------------------------------------------
(* add, addOnce: the assertion is outside the lock.  One that fails ends   *)
(* the program: no step follows.                                           *)
CheckAttached(c) ==
  /\ At(c, "assert") /\ mpcSignal[call[c].slot] = None
  /\ Goto(c, "lock")
  /\ UNCHANGED <<signalVars, lockVars, slotVars>>

(* connectSignal, under the slot's mutex. *)
ConnectSignal(c) ==
  LET s == call[c].slot IN
  /\ At(c, "connect") /\ SlotFree(s)
  /\ mpcSignal' = [mpcSignal EXCEPT ![s] = call[c].sig]
  /\ \E active \in BOOLEAN : mbActive' = [mbActive EXCEPT ![s] = active]
  /\ \E once \in FireOnceArgs : mbFireOnce' = [mbFireOnce EXCEPT ![s] = once]
  /\ mbFireOnceCompleted' = [mbFireOnceCompleted EXCEPT ![s] = FALSE]
  /\ Goto(c, "insert")
  /\ UNCHANGED <<signalVars, lockVars, hasFunction, mMutex, slotLife>>

Insert(c) ==
  LET sg == call[c].sig IN
  /\ At(c, "insert")
  /\ mlistSlots' = [mlistSlots EXCEPT ![sg] =
                      RawInsertSlot(@, call[c].slot, miPriority)]
  /\ Goto(c, "unlock")
  /\ UNCHANGED <<signalLife, lockVars, slotVars>>

-----------------------------------------------------------------------------
(* remove: rawRemoveSlot, then releaseSignal on the slot. *)
Unlink(c) ==
  LET sg == call[c].sig IN
  /\ At(c, "unlink")
  /\ mlistSlots' = [mlistSlots EXCEPT ![sg] = RawRemoveSlot(@, call[c].slot)]
  /\ Goto(c, "release")
  /\ UNCHANGED <<signalLife, lockVars, slotVars>>

(* rawRemoveAll: releaseSignal on each slot of the list, then clear.       *)
(* ~SignalBase does the same without a lock.                               *)
AtEnd_OffByOne(c) ==
  call[c].op \in Loops /\ call[c].pos >= Len(mlistSlots[call[c].sig])
AtEnd(c) ==
  call[c].op \in Loops /\ call[c].pos > Len(mlistSlots[call[c].sig])

SlotAt(c) == IF call[c].op \in Loops THEN mlistSlots[call[c].sig][call[c].pos]
                                     ELSE call[c].slot

(* releaseSignal takes the mutex and clears the fields; whoever sees       *)
(* mpcSignal = 0 may see it before the mutex is given back.                *)
ReleaseSignal(c) ==
  /\ At(c, "release") /\ ~AtEnd(c)
  /\ LET s == SlotAt(c) IN
     /\ SlotFree(s)
     /\ mMutex' = [mMutex EXCEPT ![s] = c]
     /\ mpcSignal' = [mpcSignal EXCEPT ![s] = None]
     /\ mbActive' = [mbActive EXCEPT ![s] = FALSE]
     /\ mbFireOnce' = [mbFireOnce EXCEPT ![s] = FALSE]
     /\ mbFireOnceCompleted' = [mbFireOnceCompleted EXCEPT ![s] = FALSE]
     /\ call' = [call EXCEPT ![c].pc = "released", ![c].slot = s]
  /\ UNCHANGED <<signalVars, lockVars, hasFunction, slotLife>>

UnlockSlot(c) ==
  /\ At(c, "released")
  /\ mMutex' = [mMutex EXCEPT ![call[c].slot] = None]
  /\ IF call[c].op \in Loops
     THEN call' = [call EXCEPT ![c].pc = "release", ![c].slot = None,
                               ![c].pos = @ + 1]
     ELSE Goto(c, "unlock")
  /\ UNCHANGED <<signalVars, lockVars, fieldVars, hasFunction, slotLife>>

Clear(c) ==
  LET sg == call[c].sig IN
  /\ At(c, "release") /\ AtEnd(c)
  /\ mlistSlots' = [mlistSlots EXCEPT ![sg] = <<>>]
  /\ IF call[c].op = "removeAll"
     THEN /\ call' = [call EXCEPT ![c].pc = "unlock", ![c].pos = 0]
          /\ UNCHANGED signalLife
     ELSE /\ Return(c)
          /\ signalLife' = [signalLife EXCEPT ![sg] = "dead"]
  /\ UNCHANGED <<lockVars, slotVars>>

-----------------------------------------------------------------------------
(* dispatch: lock the next slot and, if it is active and has a function,   *)
(* run the function with the slot still locked.                            *)
Visit(c) ==
  /\ At(c, "iterate") /\ ~AtEnd(c)
  /\ LET s == SlotAt(c) IN
     /\ SlotFree(s)
     /\ IF mbActive[s] /\ hasFunction[s]
        THEN /\ mMutex' = [mMutex EXCEPT ![s] = c]
             /\ call' = [call EXCEPT ![c].pc = "callback", ![c].slot = s]
        ELSE /\ call' = [call EXCEPT ![c].pos = @ + 1]
             /\ UNCHANGED mMutex
  /\ UNCHANGED <<signalVars, lockVars, fieldVars, hasFunction, slotLife>>

(* The function returns: the rest of triggerSlot and of the loop's body. *)
FinishCallback(c) ==
  LET s == call[c].slot IN
  /\ At(c, "callback") /\ ~Suspended(c)
  /\ mbFireOnceCompleted' = [mbFireOnceCompleted EXCEPT ![s] = @ \/ mbFireOnce[s]]
  /\ mbActive' = [mbActive EXCEPT ![s] = @ /\ ~mbFireOnce[s]]
  /\ mMutex' = [mMutex EXCEPT ![s] = None]
  /\ call' = [call EXCEPT ![c].pc = "iterate", ![c].slot = None,
                          ![c].pos = @ + 1, ![c].completed = @ \/ mbFireOnce[s]]
  /\ UNCHANGED <<signalVars, lockVars, mpcSignal, mbFireOnce, hasFunction, slotLife>>

(* removeCompletedSlots asks for the write lock of the signal this very    *)
(* call is reading: it waits in "complete" for ever, and no action follows.*)
EndDispatch(c) ==
  /\ At(c, "iterate") /\ AtEnd(c)
  /\ call' = [call EXCEPT ![c].pc = IF call[c].completed THEN "complete" ELSE "unlock",
                          ![c].pos = 0]
  /\ UNCHANGED <<signalVars, lockVars, slotVars>>

-----------------------------------------------------------------------------
SetActive(c) ==
  LET s == call[c].slot IN
  /\ At(c, "slot") /\ call[c].op = "setActive" /\ SlotFree(s)
  /\ \E x \in BOOLEAN : mbActive' = [mbActive EXCEPT ![s] = x]
  /\ Return(c)
  /\ UNCHANGED <<signalVars, lockVars, mpcSignal, mbFireOnce, mbFireOnceCompleted,
                 hasFunction, mMutex, slotLife>>

(* attach and attach_class; the function that is attached may be empty. *)
Attach(c) ==
  LET s == call[c].slot IN
  /\ At(c, "slot") /\ call[c].op = "attach" /\ SlotFree(s)
  /\ \E f \in BOOLEAN : hasFunction' = [hasFunction EXCEPT ![s] = f]
  /\ Return(c)
  /\ UNCHANGED <<signalVars, lockVars, fieldVars, mMutex, slotLife>>

-----------------------------------------------------------------------------
(* ~ThreadSlot destroys mFunction before ~SlotBase runs.  The destroyed    *)
(* function object still says it is not empty.                             *)
DestroyFunction(c) ==
  /\ At(c, "dtor")
  /\ slotLife' = [slotLife EXCEPT ![call[c].slot] = "noFunction"]
  /\ Goto(c, "detach")
  /\ UNCHANGED <<signalVars, lockVars, fieldVars, hasFunction, mMutex>>

AfterDetach_NoTest(sg) == "lock"
AfterDetach_NeverRemoves(sg) == "free"
AfterDetach(sg) == IF sg = None THEN "free" ELSE "lock"

(* ~SlotBase reads mpcSignal without a lock and calls remove on it.  The   *)
(* test and the call are one read: between two reads only releaseSignal    *)
(* could change it, by a loop over the list, which Quiet keeps away.       *)
Detach(c) ==
  LET sg == mpcSignal[call[c].slot] IN
  /\ At(c, "detach")
  /\ call' = [call EXCEPT ![c].pc = AfterDetach(sg), ![c].sig = sg]
  /\ UNCHANGED <<signalVars, lockVars, slotVars>>

Free(c) ==
  /\ At(c, "free")
  /\ slotLife' = [slotLife EXCEPT ![call[c].slot] = "dead"]
  /\ Return(c)
  /\ UNCHANGED <<signalVars, lockVars, fieldVars, hasFunction, mMutex>>

(* The constructors: a new object where a dead one was. *)
NewSlot(s) ==
  /\ slotLife[s] = "dead"
  /\ slotLife' = [slotLife EXCEPT ![s] = "alive"]
  /\ mpcSignal' = [mpcSignal EXCEPT ![s] = None]
  /\ mbActive' = [mbActive EXCEPT ![s] = FALSE]
  /\ mbFireOnce' = [mbFireOnce EXCEPT ![s] = FALSE]
  /\ mbFireOnceCompleted' = [mbFireOnceCompleted EXCEPT ![s] = FALSE]
  /\ hasFunction' = [hasFunction EXCEPT ![s] = FALSE]
  /\ mMutex' = [mMutex EXCEPT ![s] = None]
  /\ UNCHANGED <<signalVars, lockVars, call>>

NewSignal(sg) ==
  /\ signalLife[sg] = "dead"
  /\ signalLife' = [signalLife EXCEPT ![sg] = "alive"]
  /\ mlistSlots' = [mlistSlots EXCEPT ![sg] = <<>>]
  /\ UNCHANGED <<lockVars, slotVars, call>>

-----------------------------------------------------------------------------
LockStep(c) == AcquireRead(c) \/ AcquireWrite(c) \/ Unlock(c)
AddStep(c) == CheckAttached(c) \/ ConnectSignal(c) \/ Insert(c)
RemoveStep(c) == Unlink(c) \/ ReleaseSignal(c) \/ UnlockSlot(c) \/ Clear(c)
DispatchStep(c) == Visit(c) \/ FinishCallback(c) \/ EndDispatch(c)
SlotStep(c) == SetActive(c) \/ Attach(c)
DestroyStep(c) == DestroyFunction(c) \/ Detach(c) \/ Free(c)

Step(c) == \/ LockStep(c) \/ AddStep(c) \/ RemoveStep(c)
           \/ DispatchStep(c) \/ SlotStep(c) \/ DestroyStep(c)

Next == \/ \E c \in Calls : ThreadCalls(c) \/ CallbackCalls(c) \/ Step(c)
        \/ \E s \in Slots : NewSlot(s)
        \/ \E sg \in Signals : NewSignal(sg)

(* The threads run, callbacks return, and whoever can have a lock gets it. *)
(* Nobody is obliged to make a call.                                       *)
Fairness == \A c \in Calls : WF_vars(Step(c))

Spec == Init /\ [][Next]_vars /\ Fairness

-----------------------------------------------------------------------------
(* The places a method goes through. *)
PcsOf(op) ==
  CASE op = "none"   -> {"idle"}
    [] op = "add"    -> {"assert", "lock", "connect", "insert", "unlock"}
    [] op = "remove" -> {"lock", "unlink", "release", "released", "unlock"}
    [] op = "removeAll" -> {"lock", "release", "released", "unlock"}
    [] op = "dispatch"  -> {"lock", "iterate", "callback", "complete", "unlock"}
    [] op = "query"     -> {"lock", "unlock"}
    [] op \in SlotOps   -> {"slot"}
    [] op = "destroySignal" -> {"release", "released"}
    [] op = "destroySlot"   -> {"dtor", "detach", "lock", "unlink", "release",
                                "released", "unlock", "free"}

(* A call is at a place of its method, and has what it uses there: no lock *)
(* of a null signal, no mutex of a null slot, no cursor before the list.   *)
FrameOK(f) ==
  /\ f.pc \in PcsOf(f.op)
  /\ f.op \in OnSignal \/ f.pc \notin {"idle", "slot", "dtor", "detach", "free"}
       => f.sig \in Signals
  /\ f.op \in OnSlot \/ f.pc \in {"callback", "released"} => f.slot \in Slots
  /\ f.op \in Loops /\ f.pc \in {"iterate", "callback", "release", "released"}
       => f.pos >= 1

(* The shape of the state. *)
TypeOK ==
  /\ mlistSlots \in [Signals -> Seq(Slots)]
  /\ readers \in [Signals -> SUBSET Calls]
  /\ writer \in [Signals -> Calls \cup {None}]
  /\ signalLife \in [Signals -> {"alive", "dead"}]
  /\ mpcSignal \in [Slots -> Signals \cup {None}]
  /\ mbActive \in [Slots -> BOOLEAN]
  /\ mbFireOnce \in [Slots -> BOOLEAN]
  /\ mbFireOnceCompleted \in [Slots -> BOOLEAN]
  /\ hasFunction \in [Slots -> BOOLEAN]
  /\ mMutex \in [Slots -> Calls \cup {None}]
  /\ slotLife \in [Slots -> {"alive", "noFunction", "dead"}]
  /\ call \in [Calls -> Frame]
  /\ \A c \in Calls : FrameOK(call[c])

(* The locks a call holds, by the place it has reached. *)
HoldsRead(c)  == call[c].op \in ReadOps
                 /\ call[c].pc \in {"iterate", "callback", "complete", "unlock"}
HoldsWrite(c) == call[c].op \in Changes \cup {"removeAll"}
                 /\ call[c].pc \in {"connect", "insert", "unlink", "release",
                                   "released", "unlock"}
HoldsSlot(c)  == call[c].pc \in {"callback", "released"}

(* Each lock is held by exactly the calls that are between its             *)
(* constructor and its destructor, and a writer is alone.                  *)
ListLocksExact == \A sg \in Signals :
  /\ \A c \in Calls : c \in readers[sg] <=> HoldsRead(c) /\ call[c].sig = sg
  /\ \A c \in Calls : writer[sg] = c <=> HoldsWrite(c) /\ call[c].sig = sg
  /\ writer[sg] # None => readers[sg] = {}

SlotLocksExact == \A s \in Slots : \A c \in Calls :
  mMutex[s] = c <=> HoldsSlot(c) /\ call[c].slot = s

LocksExact == ListLocksExact /\ SlotLocksExact

(* Somebody is in the middle of changing the list of sg. *)
Changing(sg) == \E c \in Calls :
  call[c].sig = sg /\ call[c].pc \in {"insert", "release", "released"}

(* "The source of a signal and the target of a signal must be aware of the *)
(* other" (design-ideas-signals.md): at rest a slot is in the list of the  *)
(* signal that it points to and in no other, and once.                     *)
Coherent ==
  \A sg \in Signals : ~Changing(sg) =>
    /\ NoDuplicates(mlistSlots[sg])
    /\ \A s \in Slots : s \in Members(mlistSlots[sg]) <=> mpcSignal[s] = sg

(* A function runs only for a slot that is whole, active, in the list of   *)
(* the dispatched signal at the place of the iteration, and locked by this *)
(* dispatch: so setActive(false), remove and ~SlotBase cannot have         *)
(* returned while the function still runs, and it runs once at a time.     *)
CallbackSafe ==
  \A c \in Calls : At(c, "callback") =>
    /\ ~AtEnd(c) /\ SlotAt(c) = call[c].slot
    /\ mMutex[call[c].slot] = c
    /\ slotLife[call[c].slot] = "alive"
    /\ mbActive[call[c].slot] /\ hasFunction[call[c].slot]

(* ~SlotBase has "the additional task of removing itself from the          *)
(* connected signal to stop it attempting to call the callback in the      *)
(* future" (slot-base.h): no list names a slot that has been destroyed.    *)
ListedSlotsExist ==
  \A sg \in Signals : \A s \in Members(mlistSlots[sg]) : slotLife[s] # "dead"

(* No function runs that ~ThreadSlot has already destroyed. *)
FunctionsExist ==
  \A c \in Calls : At(c, "callback") => slotLife[call[c].slot] = "alive"

(* "The Signal class must not attempt to communicate with a deleted slot"  *)
(* (design-ideas-signals.md): no list names a dead slot, no call is about  *)
(* to touch one, and no mutex is destroyed while it is held.               *)
NoDeadSlotTouched ==
  /\ ListedSlotsExist
  /\ \A c \in Calls : call[c].slot # None => slotLife[call[c].slot] # "dead"
  /\ \A s \in Slots : slotLife[s] = "dead" => mMutex[s] = None

(* "The Slot class must not attempt to communicate with a deleted signal": *)
(* no slot points to a dead signal and no call works on one.               *)
NoDeadSignalNamed ==
  /\ \A s \in Slots : mpcSignal[s] # None => signalLife[mpcSignal[s]] = "alive"
  /\ \A c \in Calls : call[c].sig # None => signalLife[call[c].sig] = "alive"

(* dispatch walks the list with nothing but the read lock: nobody changes  *)
(* a list under its readers.                                               *)
ListStableForReaders ==
  [][\A sg \in Signals :
       readers[sg] # {} => mlistSlots'[sg] = mlistSlots[sg]]_vars

(* ReadWriteLock is used as it is meant to be: for every signal, the calls *)
(* are guards of the abstract lock (which ReadWriteMutex implements).      *)
GuardMode(sg, c) ==
  IF call[c].sig # sg THEN "out"
  ELSE IF At(c, "lock")
       THEN IF call[c].op \in ReadOps THEN "wantRead" ELSE "wantWrite"
  ELSE IF HoldsRead(c) THEN "reading"
  ELSE IF HoldsWrite(c) THEN "writing"
  ELSE "out"

GuardModes(sg) == [c \in Calls |-> GuardMode(sg, c)]

Lock(sg) == INSTANCE ReadWriteLock WITH Guards <- Calls, mode <- GuardModes(sg)

UsesLock == /\ \A sg \in Signals : Lock(sg)!Init
            /\ [][\A sg \in Signals : [Lock(sg)!Next]_(GuardModes(sg))]_vars

(* The whole keeps the promise of Connections: the signal that has a slot  *)
(* and nobody else calls its function, once at a time, and while it runs   *)
(* nothing about the slot changes; ~SlotBase and ~SignalBase return only   *)
(* when neither side names the other.                                      *)
Connection ==
  INSTANCE Connections
  WITH Callers <- Calls, attached <- mpcSignal, active <- mbActive,
       calling <- [c \in Calls |-> IF At(c, "callback") THEN call[c].slot ELSE None],
       source  <- [c \in Calls |-> IF At(c, "callback") THEN call[c].sig ELSE None]

ImplementsConnections == Connection!Spec

-----------------------------------------------------------------------------
(* What a call waits for: the end of the call that its callback has made,  *)
(* the holders of the list lock that it asks for (in "complete" the lock   *)
(* that it reads itself), the holder of the slot's mutex that it needs.    *)
NeedsSlot(c) == \/ At(c, "connect") \/ At(c, "slot")
                \/ (At(c, "release") \/ At(c, "iterate")) /\ ~AtEnd(c)

NeededSlot(c) == IF At(c, "connect") \/ At(c, "slot") THEN call[c].slot ELSE SlotAt(c)

WaitsFor(c, d) ==
  LET sg == call[c].sig
  IN \/ call[d].caller = c
     \/ At(c, "lock") /\ writer[sg] = d
     \/ At(c, "lock") /\ call[c].op \notin ReadOps /\ d \in readers[sg]
     \/ At(c, "complete") /\ d \in readers[sg]
     \/ NeedsSlot(c) /\ mMutex[NeededSlot(c)] = d

(* No calls wait for one another in a circle: among any calls there is one *)
(* that waits for none of them.                                            *)
NoCircularWait ==
  \A S \in (SUBSET Calls) \ {{}} : \E c \in S : \A d \in S : ~WaitsFor(c, d)

(* Nothing but other calls holds up a call: one that waits for nobody can  *)
(* go on.                                                                  *)
NobodyElseHoldsUp ==
  \A c \in Calls :
    ~At(c, "idle") /\ (\A d \in Calls : ~WaitsFor(c, d)) => ENABLED Step(c)

(* Once no more calls are made, every call returns: the two kinds of lock  *)
(* never leave calls waiting for one another.                              *)
CallsReturn ==
  <>[][~ \E c \in Calls : At(c, "idle") /\ ~At(c, "idle")']_vars
     => <>[](\A c \in Calls : At(c, "idle"))

(* "used internally to remove fireOnce slots" (signal-base.h): a slot that *)
(* has fired once leaves the lists.                                        *)
FiredOnceLeaves ==
  \A s \in Slots :
    mbFireOnceCompleted[s] ~> (\A sg \in Signals : s \notin Members(mlistSlots[sg]))
=============================================================================
