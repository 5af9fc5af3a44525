------------------------ MODULE ThreadSignalSlotProofs ------------------------
(***************************************************************************)
(* The slots of ThreadSignal: that lists and pointers agree, that the      *)
(* mutexes of the slots are held where the code thinks they are, that      *)
(* nobody touches a destroyed object, and that the whole implements        *)
(* Connections, for all sets of calls, signals and slots, and all methods  *)
(* that threads and callbacks may call, provided the clients keep the      *)
(* rules "attached" and "quiet"; and that no calls wait for one another in *)
(* a circle, if they also keep "ordered" and no slot fires once.           *)
(***************************************************************************)
EXTENDS ThreadSignalProofs

(* The loops that release the slots of a list. *)
Releasing == {"removeAll", "destroySignal"}

(* The i-th slot of the list of sg has been released by such a loop, which *)
(* will clear the list when it is at its end.                              *)
Passed(sg, i) ==
  \E d \in Calls :
    /\ call[d].sig = sg /\ call[d].op \in Releasing
    /\ \/ call[d].pc \in {"release", "released"} /\ i < call[d].pos
       \/ call[d].pc = "released" /\ i = call[d].pos

-----------------------------------------------------------------------------
(* The parts of the invariant.  Calls: at most one changes the attachment  *)
(* of a slot, and who destroys a slot is alone with it.                    *)
SlotOwners ==
  \A c, d \in Calls : c # d /\ call[c].slot = call[d].slot =>
    /\ ~(call[c].op \in Changes /\ call[d].op \in Changes)
    /\ ~(call[c].op = "destroySlot" /\ call[d].op \in OnSlot)

(* A call has a slot or a signal that it was not given only while it uses  *)
(* it.                                                                     *)
FrameExact(f) ==
  /\ f.op \notin OnSlot /\ f.slot # None => f.pc \in {"callback", "released"}
  /\ f.op \notin OnSignal /\ f.sig # None
       => f.op = "destroySlot" /\ f.pc \notin {"dtor", "detach"}

FramesExact == \A c \in Calls : FrameExact(call[c])

(* The slot that a loop has locked is the one its cursor is at. *)
CursorOK(c) ==
  call[c].op \in Loops /\ call[c].pc \in {"callback", "released"} =>
    ~AtEnd(c) /\ SlotAt(c) = call[c].slot

CursorExact == \A c \in Calls : CursorOK(c)

ListsUnique == \A sg \in Signals : NoDuplicates(mlistSlots[sg])

(* A list holds slots that point to its signal, until they are released.   *)
EntriesPoint ==
  \A sg \in Signals : \A i \in DOMAIN mlistSlots[sg] :
    mpcSignal[mlistSlots[sg][i]] = sg <=> ~Passed(sg, i)

(* Somebody has linked s to sg and not yet inserted it, or has taken it    *)
(* out and not yet released it.                                            *)
HalfAttached(s, sg) ==
  \E c \in Calls :
    /\ call[c].sig = sg /\ call[c].slot = s
    /\ \/ call[c].op = "add" /\ call[c].pc = "insert"
       \/ call[c].op \in {"remove", "destroySlot"} /\ call[c].pc = "release"

PointersListed ==
  \A s \in Slots, sg \in Signals :
    mpcSignal[s] = sg => s \in Members(mlistSlots[sg]) \/ HalfAttached(s, sg)

AddExact ==
  \A c \in Calls : call[c].op = "add" =>
    /\ call[c].pc \in {"assert", "lock", "connect"} => mpcSignal[call[c].slot] = None
    /\ call[c].pc = "insert" =>
         /\ mpcSignal[call[c].slot] = call[c].sig
         /\ call[c].slot \notin Members(mlistSlots[call[c].sig])

RemoveExact ==
  \A c \in Calls : call[c].op = "remove" =>
    /\ mpcSignal[call[c].slot] \in {call[c].sig, None}
    /\ call[c].pc = "release" => call[c].slot \notin Members(mlistSlots[call[c].sig])

(* ~ThreadSlot meets no loop over a list that has the slot, and takes the  *)
(* slot out of the one list it is in.                                      *)
DestroyExact ==
  \A c \in Calls : call[c].op = "destroySlot" =>
    /\ \A d \in Calls :
         /\ call[d].op \in Loops => call[c].slot \notin Members(mlistSlots[call[d].sig])
         /\ call[d].op = "destroySignal" => call[c].sig # call[d].sig
    /\ call[c].sig # None => signalLife[call[c].sig] = "alive"
    /\ call[c].pc \in {"lock", "unlink", "release"} => mpcSignal[call[c].slot] = call[c].sig
    /\ call[c].pc \in {"release", "released", "unlock", "free"} =>
         \A sg \in Signals : call[c].slot \notin Members(mlistSlots[sg])

LivesExact ==
  /\ ListedSlotsExist
  /\ \A c \in Calls : call[c].op \in OnSlot =>
       slotLife[call[c].slot] =
         (IF call[c].op = "destroySlot" /\ call[c].pc # "dtor" THEN "noFunction" ELSE "alive")
  /\ \A s \in Slots :
       /\ slotLife[s] = "dead" => mMutex[s] = None
       /\ slotLife[s] = "noFunction" =>
            \E c \in Calls : call[c].op = "destroySlot" /\ call[c].slot = s

CallbackReady ==
  \A c \in Calls : call[c].pc = "callback" =>
    mbActive[call[c].slot] /\ hasFunction[call[c].slot]

PointedLive ==
  \A s \in Slots : mpcSignal[s] # None => signalLife[mpcSignal[s]] = "alive"

Attachments ==
  /\ ListsUnique /\ EntriesPoint /\ PointersListed
  /\ AddExact /\ RemoveExact /\ DestroyExact /\ PointedLive

SlotsOK ==
  /\ SlotLocksExact /\ SlotOwners /\ FramesExact /\ CursorExact
  /\ Attachments /\ LivesExact /\ CallbackReady

SInv == LInv /\ SlotsOK
-----------------------------------------------------------------------------
(* The fields that the proofs need of a frame. *)
LEMMA CallTyped ==
  ASSUME LInv, NEW d \in Calls
  PROVE  /\ call[d].op \in OnSignal => call[d].sig \in Signals
         /\ HoldsRead(d) \/ HoldsWrite(d) => call[d].sig \in Signals
         /\ call[d].sig \in Signals \cup {None} /\ call[d].slot \in Slots \cup {None}
         /\ call[d].op \in OnSlot \/ HoldsSlot(d) => call[d].slot \in Slots
         /\ call[d].pos \in Nat /\ call[d].op \in Ops \cup {"none"}
<1>1. call[d] \in Frame /\ FrameOK(call[d])
  BY FrameFields DEF LInv
<1>2. /\ call[d].sig \in Signals \cup {None} /\ call[d].slot \in Slots \cup {None}
      /\ call[d].pos \in Nat /\ call[d].op \in Ops \cup {"none"}
  BY <1>1 DEF Frame
<1>3. HoldsRead(d) \/ HoldsWrite(d) => call[d].sig \in Signals
  BY <1>1 DEF FrameOK, HoldsRead, HoldsWrite
<1>4. /\ call[d].op \in OnSignal => call[d].sig \in Signals
      /\ call[d].op \in OnSlot \/ HoldsSlot(d) => call[d].slot \in Slots
  BY <1>1 DEF FrameOK, HoldsSlot
<1>5. QED
  BY <1>2, <1>3, <1>4

(* Going on to another place changes nothing else of the frame. *)
LEMMA GotoEffect ==
  ASSUME TypeOK, NEW c \in Calls, NEW pc, Goto(c, pc)
  PROVE  /\ OthersStay(c) /\ call'[c].pc = pc /\ call'[c].op = call[c].op
         /\ call'[c].sig = call[c].sig /\ call'[c].slot = call[c].slot
         /\ call'[c].pos = call[c].pos
BY DEF Goto, TypeOK, Frame, OthersStay

LEMMA ReturnEffect ==
  ASSUME TypeOK, NEW c \in Calls, Return(c)
  PROVE  /\ OthersStay(c) /\ call'[c].pc = "idle" /\ call'[c].op = "none"
         /\ call'[c].sig = None /\ call'[c].slot = None
BY DEF Return, TypeOK, OthersStay, Idle

-----------------------------------------------------------------------------
(* Who may change a list: the writer of its lock, or the destructor of the *)
(* signal.  There is one at most, and no reader beside it.                 *)
OwnsList(c) == HoldsWrite(c) \/ call[c].op = "destroySignal"

LEMMA OwnerUnique ==
  ASSUME SInv, NEW c \in Calls, NEW d \in Calls, OwnsList(c),
         OwnsList(d) \/ HoldsRead(d), call[c].sig = call[d].sig
  PROVE  c = d
<1> USE DEF SInv, SlotsOK
<1> SUFFICES ASSUME c # d PROVE FALSE
  OBVIOUS
<1> DEFINE sg == call[c].sig
<1>1. /\ ~(HoldsRead(c) /\ HoldsWrite(c))
      /\ call[c].op = "destroySignal" \/ call[d].op = "destroySignal" =>
           ~(HoldsRead(c) \/ HoldsWrite(c)) \/ ~(HoldsRead(d) \/ HoldsWrite(d))
      /\ "destroySignal" \in OnSignal
  BY DEF HoldsRead, HoldsWrite, ReadOps, Changes, OnSignal, Loops
<1>2. sg \in Signals
  BY <1>1, CallTyped DEF OwnsList
<1>3. CASE HoldsWrite(c) /\ HoldsWrite(d)
  <2>1. writer[sg] = c /\ writer[sg] = d
    BY <1>2, <1>3 DEF LInv, ListLocksExact
  <2>2. QED
    BY <2>1
<1>4. CASE HoldsWrite(c) /\ HoldsRead(d)
  <2>1. writer[sg] = c /\ d \in readers[sg]
    BY <1>2, <1>4 DEF LInv, ListLocksExact
  <2>2. writer[sg] # None => readers[sg] = {}
    BY <1>2 DEF LInv, ListLocksExact
  <2>3. QED
    BY <2>1, <2>2, ConstantsAssumption
<1>5. ASSUME NEW e \in Calls, NEW f \in Calls, call[e].op = "destroySignal",
             call[e].sig = call[f].sig, e # f,
             HoldsWrite(f) \/ HoldsRead(f) \/ call[f].op = "destroySignal"
      PROVE  FALSE
  <2>1. call[f].op \in OnSignal \cup {"destroySlot"}
    BY <1>5 DEF HoldsRead, HoldsWrite, ReadOps, Changes, OnSignal, Loops
  <2>2. CASE call[f].op \in OnSignal
    BY <1>5, <2>2 DEF LInv, DestroyAlone
  <2>3. CASE call[f].op = "destroySlot"
    BY <1>5, <2>3 DEF Attachments, DestroyExact
  <2>4. QED
    BY <2>1, <2>2, <2>3
<1>6. QED
  BY <1>3, <1>4, <1>5 DEF OwnsList

(* Where the owner is no releasing loop, nothing is passed; where it is    *)
(* one, its cursor tells.                                                  *)
LEMMA PassedByOwner ==
  ASSUME SInv, NEW c \in Calls, OwnsList(c)
  PROVE  \A i \in Nat :
           Passed(call[c].sig, i) <=>
             /\ call[c].op \in Releasing /\ call[c].pc \in {"release", "released"}
             /\ i < call[c].pos \/ (i = call[c].pos /\ call[c].pc = "released")
<1>1. ASSUME NEW d \in Calls, call[d].op \in Releasing,
             call[d].pc \in {"release", "released"}
      PROVE  OwnsList(d)
  BY <1>1 DEF OwnsList, HoldsWrite, Releasing
<1>2. QED
  BY <1>1, OwnerUnique DEF Passed

-----------------------------------------------------------------------------
(* What steps that have nothing to do with a part of the invariant leave   *)
(* as it is.  A call goes on in its method or returns.                     *)
Continues(c) ==
  /\ OthersStay(c)
  /\ \/ call'[c] = Idle
     \/ call'[c].op = call[c].op /\ (call[c].op \in OnSlot => call'[c].slot = call[c].slot)

LEMMA OwnersKept ==
  ASSUME SInv, NEW c \in Calls, Continues(c)
  PROVE  SlotOwners'
<1>1. \A d \in Calls : call'[d].op \in OnSlot =>
        call'[d].op = call[d].op /\ call'[d].slot = call[d].slot
  BY DEF Continues, OthersStay, Idle, OnSlot, Changes, SlotOps
<1>2. Changes \subseteq OnSlot
  BY DEF OnSlot
<1>3. QED
  BY <1>1, <1>2 DEF SInv, SlotsOK, SlotOwners, Changes

LEMMA FramesKept ==
  ASSUME SInv, NEW c \in Calls, OthersStay(c), FrameExact(call'[c])
  PROVE  FramesExact'
BY DEF SInv, SlotsOK, FramesExact, OthersStay

LEMMA SlotLocksKept ==
  ASSUME SInv, NEW c \in Calls, OthersStay(c), mMutex' = mMutex,
         HoldsSlot(c)' <=> HoldsSlot(c), HoldsSlot(c) => call'[c].slot = call[c].slot
  PROVE  SlotLocksExact'
<1>1. \A d \in Calls, s \in Slots :
        (HoldsSlot(d) /\ call[d].slot = s)' <=> HoldsSlot(d) /\ call[d].slot = s
  <2> SUFFICES ASSUME NEW d \in Calls, NEW s \in Slots
      PROVE  (HoldsSlot(d) /\ call[d].slot = s)' <=> HoldsSlot(d) /\ call[d].slot = s
    OBVIOUS
  <2>1. CASE d = c
    BY <2>1
  <2>2. CASE d # c
    BY <2>2 DEF OthersStay, HoldsSlot
  <2>3. QED
    BY <2>1, <2>2
<1>2. QED
  BY <1>1 DEF SInv, SlotsOK, SlotLocksExact

(* Only the owner of a list changes it, so the cursors of others stay.     *)
LEMMA CursorsKept ==
  ASSUME SInv, NEW c \in Calls, OthersStay(c),
         \A sg \in Signals : \/ mlistSlots'[sg] = mlistSlots[sg]
                             \/ sg = call[c].sig /\ OwnsList(c),
         CursorOK(c)'
  PROVE  CursorExact'
<1> SUFFICES ASSUME NEW d \in Calls, d # c, call[d].op \in Loops,
                    call[d].pc \in {"callback", "released"}
             PROVE  CursorOK(d)'
  BY DEF CursorExact, CursorOK, OthersStay
<1>1. call'[d] = call[d]
  BY DEF OthersStay
<1>2. call[d].sig \in Signals
  BY CallTyped DEF SInv, SlotsOK, OnSignal
<1>3. HoldsRead(d) \/ OwnsList(d)
  <2>1. /\ call[d].pc = "callback" => call[d].op = "dispatch"
        /\ call[d].pc = "released" => call[d].op \in {"removeAll", "destroySignal"}
    BY MethodAt DEF SInv, SlotsOK, LInv, Loops
  <2>2. QED
    BY <2>1 DEF HoldsRead, OwnsList, HoldsWrite, ReadOps
<1>4. mlistSlots'[call[d].sig] = mlistSlots[call[d].sig]
  BY <1>2, <1>3, OwnerUnique
<1>5. CursorOK(d)
  BY DEF SInv, SlotsOK, CursorExact
<1>6. QED
  BY <1>1, <1>4, <1>5 DEF CursorOK, AtEnd, SlotAt

(* Functions and flags change only for slots that no other call has locked.*)
LEMMA ReadyKept ==
  ASSUME SInv, NEW c \in Calls, OthersStay(c),
         \A s \in Slots : mMutex[s] \in {None, c} \/
                          (mbActive'[s] = mbActive[s] /\ hasFunction'[s] = hasFunction[s]),
         call'[c].pc = "callback" =>
           mbActive'[call'[c].slot] /\ hasFunction'[call'[c].slot]
  PROVE  CallbackReady'
<1> SUFFICES ASSUME NEW d \in Calls, d # c, call[d].pc = "callback"
             PROVE  mbActive'[call[d].slot] /\ hasFunction'[call[d].slot]
  BY DEF CallbackReady, OthersStay
<1>1. call[d].slot \in Slots /\ HoldsSlot(d)
  BY CallTyped DEF SInv, SlotsOK, HoldsSlot
<1>2. mMutex[call[d].slot] = d /\ d # None
  BY <1>1, ConstantsAssumption DEF SInv, SlotsOK, SlotLocksExact
<1>3. mbActive[call[d].slot] /\ hasFunction[call[d].slot]
  BY DEF SInv, SlotsOK, CallbackReady
<1>4. QED
  BY <1>1, <1>2, <1>3

LEMMA LivesKept ==
  ASSUME SInv, NEW c \in Calls, Continues(c), slotLife' = slotLife, ListedSlotsExist',
         \A s \in Slots : mMutex'[s] \in {mMutex[s], None} \/ slotLife[s] # "dead",
         call[c].op = "destroySlot" => /\ call'[c].op = "destroySlot"
                                       /\ call'[c].pc = "dtor" <=> call[c].pc = "dtor"
  PROVE  LivesExact'
<1> USE DEF SInv, SlotsOK, LivesExact
<1>2. \A d \in Calls : call'[d].op \in OnSlot =>
        /\ call'[d].op = call[d].op /\ call'[d].slot = call[d].slot
        /\ call[d].op = "destroySlot" => (call'[d].pc = "dtor" <=> call[d].pc = "dtor")
  BY DEF Continues, OthersStay, Idle, OnSlot, Changes, SlotOps
<1>3. \A d \in Calls : call'[d].op \in OnSlot =>
        slotLife'[call'[d].slot] =
          (IF call'[d].op = "destroySlot" /\ call'[d].pc # "dtor" THEN "noFunction" ELSE "alive")
  BY <1>2
<1>4. \A d \in Calls : call[d].op = "destroySlot" =>
        call'[d].op = "destroySlot" /\ call'[d].slot = call[d].slot
  BY DEF Continues, OthersStay, Idle, OnSlot, Changes
<1>5. QED
  BY <1>3, <1>4

(* Steps that change no list, no pointer and no life of a signal, and in   *)
(* which no call goes from one stage of its work on these to another.      *)
Unconcerned(c) ==
  /\ Continues(c) /\ UNCHANGED <<mlistSlots, mpcSignal, signalLife>>
  /\ call'[c] # Idle => call'[c].sig = call[c].sig
  /\ call[c].pc \notin {"insert", "release", "released"}
  /\ call'[c].pc \notin {"insert", "released"}
  /\ call'[c].pc = "release" => call[c].op \in Releasing /\ call'[c].pos = 1
  /\ call[c].op = "add" /\ call'[c].pc \in {"assert", "lock", "connect"} =>
       call[c].pc \in {"assert", "lock", "connect"}
  /\ call[c].op = "destroySlot" =>
       /\ call'[c].pc \in {"lock", "unlink"} => call[c].pc \in {"lock", "unlink"}
       /\ call'[c].pc \in {"unlock", "free"} => call[c].pc \in {"unlock", "free"}

LEMMA AttachmentsKept ==
  ASSUME SInv, NEW c \in Calls, Unconcerned(c)
  PROVE  Attachments'
<1> USE DEF SInv, SlotsOK, Attachments
<1>0. /\ UNCHANGED <<mlistSlots, mpcSignal, signalLife>>
      /\ \A d \in Calls : d # c => call'[d] = call[d]
  BY DEF Unconcerned, Continues, OthersStay
<1>1. /\ call'[c].op # "none" => call'[c].op = call[c].op /\ call'[c].sig = call[c].sig
      /\ call'[c].op \in OnSlot => call'[c].slot = call[c].slot
  BY DEF Unconcerned, Continues, Idle, OnSlot, Changes, SlotOps
<1>2. ListsUnique' /\ PointedLive'
  BY <1>0 DEF ListsUnique, PointedLive
<1>3. EntriesPoint'
  <2> SUFFICES ASSUME NEW sg \in Signals, NEW i \in DOMAIN mlistSlots[sg]
               PROVE  Passed(sg, i)' <=> Passed(sg, i)
    BY <1>0 DEF EntriesPoint
  <2>1. i \in Nat /\ ~(i < 1)
    BY DEF LInv, TypeOK
  <2>2. QED
    BY <1>0, <1>1, <2>1 DEF Passed, Unconcerned, Idle, Releasing
<1>4. PointersListed'
  <2>1. \A s \in Slots, sg \in Signals : HalfAttached(s, sg) => HalfAttached(s, sg)'
    BY <1>0 DEF HalfAttached, Unconcerned
  <2>2. QED
    BY <1>0, <2>1 DEF PointersListed
<1>5. AddExact'
  BY <1>0, <1>1 DEF AddExact, Unconcerned, OnSlot, Changes
<1>6. RemoveExact'
  BY <1>0, <1>1 DEF RemoveExact, Unconcerned, OnSlot, Changes, Releasing
<1>7. DestroyExact'
  BY <1>0, <1>1 DEF DestroyExact, Unconcerned, OnSlot, Changes, Releasing, Loops
<1>8. QED
  BY <1>2, <1>3, <1>4, <1>5, <1>6, <1>7

-----------------------------------------------------------------------------
(* Steps that take and give back no mutex of a slot: what is left to show  *)
(* of them is what they do to lists and pointers.                          *)
LEMMA PlainStep ==
  ASSUME SInv, NEW c \in Calls, Continues(c), Attachments', ListedSlotsExist',
         UNCHANGED <<mMutex, slotLife>>,
         \/ call'[c] = Idle
         \/ /\ call'[c].sig = call[c].sig /\ call'[c].slot = call[c].slot
            /\ call'[c].pc \notin {"callback", "released", "dtor", "detach"},
         ~HoldsSlot(c),
         \A sg \in Signals : \/ mlistSlots'[sg] = mlistSlots[sg]
                             \/ sg = call[c].sig /\ OwnsList(c),
         \A s \in Slots : mMutex[s] = None \/
                          (mbActive'[s] = mbActive[s] /\ hasFunction'[s] = hasFunction[s]),
         call[c].op = "destroySlot" => call'[c].op = "destroySlot" /\ call[c].pc # "dtor"
  PROVE  SlotsOK'
<1>1. OthersStay(c)
  BY DEF Continues
<1>2. call'[c].pc \notin {"callback", "released"}
  BY DEF Idle
<1>3. SlotOwners'
  BY OwnersKept
<1>4. FramesExact'
  <2>1. FrameExact(Idle)
    BY DEF FrameExact, Idle, OnSlot, Changes, SlotOps
  <2>2. ASSUME call'[c] # Idle PROVE FrameExact(call'[c])
    <3>1. /\ call'[c].op = call[c].op /\ call'[c].sig = call[c].sig
          /\ call'[c].slot = call[c].slot /\ call'[c].pc \notin {"dtor", "detach"}
      BY <2>2 DEF Continues
    <3>2. FrameExact(call[c]) /\ call[c].pc \notin {"callback", "released"}
      BY DEF SInv, SlotsOK, FramesExact, HoldsSlot
    <3>3. QED
      BY <3>1, <3>2 DEF FrameExact
  <2>3. QED
    BY <1>1, <2>1, <2>2, FramesKept
<1>5. SlotLocksExact'
  BY <1>1, <1>2, SlotLocksKept DEF HoldsSlot
<1>6. CursorExact'
  BY <1>1, <1>2, CursorsKept DEF CursorOK
<1>7. CallbackReady'
  BY <1>1, <1>2, ReadyKept
<1>8. LivesExact'
  <2>1. call[c].op = "destroySlot" => (call'[c].pc = "dtor" <=> call[c].pc = "dtor")
    BY DEF Idle
  <2>2. QED
    BY <2>1, LivesKept
<1>9. QED
  BY <1>3, <1>4, <1>5, <1>6, <1>7, <1>8 DEF SlotsOK

LEMMA QuietStep ==
  ASSUME SInv, NEW c \in Calls, Unconcerned(c), UNCHANGED <<mMutex, slotLife>>,
         \/ call'[c] = Idle
         \/ /\ call'[c].slot = call[c].slot
            /\ call'[c].pc \notin {"callback", "released", "dtor", "detach"},
         ~HoldsSlot(c),
         \A s \in Slots : mMutex[s] = None \/
                          (mbActive'[s] = mbActive[s] /\ hasFunction'[s] = hasFunction[s]),
         call[c].op = "destroySlot" => call'[c].op = "destroySlot" /\ call[c].pc # "dtor"
  PROVE  SlotsOK'
<1>1. Continues(c) /\ mlistSlots' = mlistSlots /\ (call'[c] # Idle => call'[c].sig = call[c].sig)
  BY DEF Unconcerned
<1>2. ListedSlotsExist'
  BY <1>1 DEF SInv, SlotsOK, LivesExact, ListedSlotsExist
<1>3. QED
  BY <1>1, <1>2, PlainStep, AttachmentsKept

LEMMA LockStepSlots ==
  ASSUME SInv, NEW c \in Calls, LockStep(c)
  PROVE  SlotsOK'
<1> DEFINE op == call[c].op
<1>0. call[c] \in Frame /\ FrameOK(call[c]) /\ call \in [Calls -> Frame]
  BY FrameFields DEF SInv, LInv, TypeOK
<1>1. OthersStay(c)
  BY <1>0 DEF LockStep, AcquireRead, AcquireWrite, Unlock, Goto, Return, OthersStay
<1>2. UNCHANGED <<mlistSlots, signalLife, mpcSignal, mbActive, hasFunction, mMutex, slotLife>>
  BY DEF LockStep, AcquireRead, AcquireWrite, Unlock, signalVars, slotVars, fieldVars
<1>3. CASE AcquireRead(c)
  <2>1. /\ call'[c].op = op /\ call'[c].sig = call[c].sig /\ call'[c].slot = call[c].slot
        /\ call'[c].pc \in {"iterate", "unlock"}
        /\ op \in ReadOps /\ call[c].pc = "lock"
    BY <1>0, <1>3 DEF AcquireRead, Goto, At, Frame
  <2>2. Unconcerned(c) /\ ~HoldsSlot(c) /\ op # "destroySlot"
    BY <1>1, <1>2, <2>1 DEF Unconcerned, Continues, HoldsSlot, ReadOps
  <2>3. QED
    BY <1>2, <2>1, <2>2, QuietStep
<1>4. CASE AcquireWrite(c)
  <2>1. call[c].pc = "lock" /\ op \notin ReadOps
    BY <1>4 DEF AcquireWrite, At
  <2>2. op \in {"add", "remove", "removeAll", "destroySlot"}
    BY <1>0, <2>1 DEF FrameOK, PcsOf, Frame, Ops, OnSlot, OnSignal, Changes,
                      SlotOps, ReadOps, Loops
  <2>3. /\ call'[c].op = op /\ call'[c].sig = call[c].sig /\ call'[c].slot = call[c].slot
        /\ op = "add" => call'[c].pc = "connect"
        /\ op = "removeAll" => call'[c].pc = "release" /\ call'[c].pos = 1
        /\ op \in {"remove", "destroySlot"} => call'[c].pc = "unlink"
    BY <1>0, <1>4, <2>2 DEF AcquireWrite, Frame
  <2>4. Unconcerned(c) /\ ~HoldsSlot(c)
    BY <1>1, <1>2, <2>1, <2>2, <2>3 DEF Unconcerned, Continues, HoldsSlot, Releasing
  <2>5. QED
    BY <1>2, <2>1, <2>2, <2>3, <2>4, QuietStep
<1>5. CASE Unlock(c)
  <2>1. call[c].pc = "unlock"
    BY <1>5 DEF Unlock, At
  <2>2. CASE op = "destroySlot"
    <3>1. /\ call'[c].op = op /\ call'[c].sig = call[c].sig /\ call'[c].slot = call[c].slot
          /\ call'[c].pc = "free"
      BY <1>0, <1>5, <2>2 DEF Unlock, Goto, Frame
    <3>2. Unconcerned(c) /\ ~HoldsSlot(c)
      BY <1>1, <1>2, <2>1, <2>2, <3>1 DEF Unconcerned, Continues, HoldsSlot
    <3>3. QED
      BY <1>2, <2>1, <2>2, <3>1, <3>2, QuietStep
  <2>3. CASE op # "destroySlot"
    <3>1. call'[c] = Idle
      BY <1>0, <1>5, <2>3 DEF Unlock, Return
    <3>2. Unconcerned(c) /\ ~HoldsSlot(c)
      BY <1>1, <1>2, <2>1, <2>3, <3>1 DEF Unconcerned, Continues, HoldsSlot, Idle
    <3>3. QED
      BY <1>2, <2>1, <2>3, <3>1, <3>2, QuietStep
  <2>4. QED
    BY <2>2, <2>3
<1>6. QED
  BY <1>3, <1>4, <1>5 DEF LockStep

LEMMA SlotStepSlots ==
  ASSUME SInv, NEW c \in Calls, SlotStep(c)
  PROVE  SlotsOK'
<1>0. call \in [Calls -> Frame] /\ call[c].pc = "slot" /\ call[c].op # "destroySlot"
  BY DEF SInv, LInv, TypeOK, SlotStep, SetActive, Attach, At
<1>1. OthersStay(c) /\ call'[c] = Idle
  BY <1>0 DEF SlotStep, SetActive, Attach, Return, OthersStay
<1>2. UNCHANGED <<mlistSlots, signalLife, mpcSignal, mMutex, slotLife>>
  BY DEF SlotStep, SetActive, Attach, signalVars, fieldVars
<1>3. \A s \in Slots : mMutex[s] = None \/
                       (mbActive'[s] = mbActive[s] /\ hasFunction'[s] = hasFunction[s])
  BY DEF SlotStep, SetActive, Attach, SlotFree, fieldVars, SInv, LInv, TypeOK
<1>4. Unconcerned(c) /\ ~HoldsSlot(c)
  BY <1>0, <1>1, <1>2 DEF Unconcerned, Continues, HoldsSlot, Idle
<1>5. QED
  BY <1>0, <1>1, <1>2, <1>3, <1>4, QuietStep

(* A slot that is being added is in no list: all lists that name it are    *)
(* about to be cleared, and the writer's own is not.                       *)
LEMMA ConnectAttaches ==
  ASSUME SInv, NEW c \in Calls, ConnectSignal(c)
  PROVE  Attachments'
<1> USE DEF SInv, SlotsOK, Attachments
<1> DEFINE s == call[c].slot
           sg == call[c].sig
<1>0. /\ call[c].op = "add" /\ call[c].pc = "connect" /\ OthersStay(c)
      /\ call'[c].op = "add" /\ call'[c].pc = "insert"
      /\ call'[c].sig = sg /\ call'[c].slot = s
      /\ \A d \in Calls : d # c => call'[d] = call[d]
  BY MethodAt, GotoEffect DEF ConnectSignal, At, LInv, OthersStay
<1>1. s \in Slots /\ sg \in Signals /\ signalLife[sg] = "alive"
  BY <1>0, CallTyped DEF OnSlot, OnSignal, Changes, LInv, SignalsLive
<1>2. /\ UNCHANGED <<mlistSlots, signalLife>>
      /\ mpcSignal' = [mpcSignal EXCEPT ![s] = sg] /\ mpcSignal \in [Slots -> Signals \cup {None}]
  BY DEF ConnectSignal, signalVars, LInv, TypeOK
<1>3. mpcSignal[s] = None /\ sg # None
  BY <1>0, <1>1, ConstantsAssumption DEF AddExact
<1>4. \A d \in Calls : d # c /\ call[d].op \in Changes => call[d].slot # s
  BY <1>0 DEF SlotOwners, Changes
<1>5. OwnsList(c)
  BY <1>0 DEF OwnsList, HoldsWrite, Changes
<1>6. \A i \in Nat : ~Passed(sg, i)
  BY <1>0, <1>5, PassedByOwner DEF Releasing
<1>7. s \notin Members(mlistSlots[sg])
  BY <1>1, <1>3, <1>6 DEF EntriesPoint, Members, LInv, TypeOK
<1>8. ListsUnique'
  BY <1>2 DEF ListsUnique
<1>9. EntriesPoint'
  <2>1. \A sig, i : Passed(sig, i)' <=> Passed(sig, i)
    BY <1>0 DEF Passed, Releasing
  <2> SUFFICES ASSUME NEW sig \in Signals, NEW i \in DOMAIN mlistSlots[sig]
               PROVE  mpcSignal'[mlistSlots[sig][i]] = sig <=> ~Passed(sig, i)
    BY <1>2, <2>1 DEF EntriesPoint
  <2>2. mpcSignal[mlistSlots[sig][i]] = sig <=> ~Passed(sig, i)
    BY DEF EntriesPoint
  <2>3. mlistSlots[sig][i] \in Slots
    BY DEF LInv, TypeOK
  <2>4. CASE mlistSlots[sig][i] = s
    BY <1>1, <1>2, <1>3, <1>7, <2>2, <2>4, ConstantsAssumption DEF Members
  <2>5. CASE mlistSlots[sig][i] # s
    BY <1>1, <1>2, <2>2, <2>3, <2>5
  <2>6. QED
    BY <2>4, <2>5
<1>10. PointersListed'
  <2> SUFFICES ASSUME NEW t \in Slots, NEW sig \in Signals, mpcSignal'[t] = sig
               PROVE  t \in Members(mlistSlots[sig]) \/ HalfAttached(t, sig)'
    BY <1>2 DEF PointersListed
  <2>1. CASE t = s
    BY <1>0, <1>1, <1>2, <2>1 DEF HalfAttached
  <2>2. CASE t # s
    <3>1. t \in Members(mlistSlots[sig]) \/ HalfAttached(t, sig)
      BY <1>1, <1>2, <2>2 DEF PointersListed
    <3>2. HalfAttached(t, sig) => HalfAttached(t, sig)'
      BY <1>0 DEF HalfAttached
    <3>3. QED
      BY <3>1, <3>2
  <2>3. QED
    BY <2>1, <2>2
<1>11. \A d \in Calls : d # c /\ call[d].op \in Changes => mpcSignal'[call[d].slot] = mpcSignal[call[d].slot]
  BY <1>1, <1>2, <1>4, CallTyped DEF OnSlot
<1>12. AddExact'
  BY <1>0, <1>1, <1>2, <1>7, <1>11 DEF AddExact, Changes
<1>13. RemoveExact'
  BY <1>0, <1>2, <1>11 DEF RemoveExact, Changes
<1>14. DestroyExact'
  BY <1>0, <1>2, <1>11 DEF DestroyExact, Changes, Loops
<1>15. PointedLive'
  BY <1>1, <1>2 DEF PointedLive
<1>16. QED
  BY <1>8, <1>9, <1>10, <1>12, <1>13, <1>14, <1>15

LEMMA InsertAttaches ==
  ASSUME SInv, NEW c \in Calls, Insert(c)
  PROVE  Attachments' /\ ListedSlotsExist'
<1> USE DEF SInv, SlotsOK, Attachments
<1> DEFINE s == call[c].slot
           sg == call[c].sig
           new == RawInsertSlot(mlistSlots[sg], s, miPriority)
<1>0. /\ call[c].op = "add" /\ call[c].pc = "insert" /\ OthersStay(c)
      /\ call'[c].op = "add" /\ call'[c].pc = "unlock"
      /\ call'[c].sig = sg /\ call'[c].slot = s
      /\ \A d \in Calls : d # c => call'[d] = call[d]
  BY MethodAt, GotoEffect DEF Insert, At, LInv, OthersStay
<1>1. s \in Slots /\ sg \in Signals
  BY <1>0, CallTyped DEF OnSlot, OnSignal, Changes
<1>2. UNCHANGED <<mpcSignal, signalLife, slotLife>>
  BY DEF Insert, slotVars, fieldVars
<1>3. /\ mpcSignal[s] = sg /\ s \notin Members(mlistSlots[sg]) /\ slotLife[s] = "alive"
      /\ NoDuplicates(mlistSlots[sg]) /\ mlistSlots[sg] \in Seq(Slots)
  BY <1>0, <1>1 DEF AddExact, LivesExact, OnSlot, Changes, ListsUnique, LInv, TypeOK
<1>4. new \in Seq(Slots) /\ Members(new) = Members(mlistSlots[sg]) \cup {s} /\ NoDuplicates(new)
  BY <1>1, <1>3, InsertKeepsOrder, PriorityTyped
<1>5. /\ mlistSlots'[sg] = new
      /\ \A sig \in Signals : sig # sg => mlistSlots'[sig] = mlistSlots[sig]
  BY <1>1 DEF Insert, LInv, TypeOK
<1> HIDE DEF new
<1>6. \A i \in Nat : ~Passed(sg, i)
  <2>1. OwnsList(c)
    BY <1>0 DEF OwnsList, HoldsWrite, Changes
  <2>2. QED
    BY <1>0, <2>1, PassedByOwner DEF Releasing
<1>7. \A t \in Members(mlistSlots[sg]) : mpcSignal[t] = sg
  BY <1>1, <1>3, <1>6 DEF EntriesPoint, Members
<1>8. \A d \in Calls : d # c /\ call[d].op \in Changes => call[d].slot # s
  BY <1>0 DEF SlotOwners, Changes
<1>9. \A sig \in Signals :
        /\ Members(mlistSlots[sig]) \subseteq Members(mlistSlots'[sig])
        /\ Members(mlistSlots'[sig]) \subseteq Members(mlistSlots[sig]) \cup {s}
  BY <1>4, <1>5
<1>10. ListsUnique'
  BY <1>4, <1>5 DEF ListsUnique
<1>11. EntriesPoint'
  <2>1. \A sig, i : Passed(sig, i)' <=> Passed(sig, i)
    BY <1>0 DEF Passed, Releasing
  <2> SUFFICES ASSUME NEW sig \in Signals, NEW i \in DOMAIN mlistSlots'[sig]
               PROVE  mpcSignal[mlistSlots'[sig][i]] = sig <=> ~Passed(sig, i)
    BY <1>2, <2>1 DEF EntriesPoint
  <2>2. CASE sig = sg
    <3>1. new[i] \in Members(mlistSlots[sg]) \cup {s}
      BY <1>4, <1>5, <2>2 DEF Members
    <3>2. i \in Nat
      BY <1>4, <1>5, <2>2
    <3>3. QED
      BY <1>3, <1>5, <1>6, <1>7, <2>2, <3>1, <3>2
  <2>3. CASE sig # sg
    BY <1>5, <2>3 DEF EntriesPoint
  <2>4. QED
    BY <2>2, <2>3
<1>12. PointersListed'
  <2> SUFFICES ASSUME NEW t \in Slots, NEW sig \in Signals, mpcSignal[t] = sig
               PROVE  t \in Members(mlistSlots'[sig]) \/ HalfAttached(t, sig)'
    BY <1>2 DEF PointersListed
  <2>1. t \in Members(mlistSlots[sig]) \/ HalfAttached(t, sig)
    BY DEF PointersListed
  <2>2. HalfAttached(t, sig) => HalfAttached(t, sig)' \/ (t = s /\ sig = sg)
    BY <1>0, SMTT(30) DEF HalfAttached
  <2>3. QED
    BY <1>4, <1>5, <1>9, <2>1, <2>2
<1>13. \A d \in Calls, sig \in Signals :
         d # c /\ call[d].op \in Changes /\ call[d].slot \notin Members(mlistSlots[sig])
           => call[d].slot \notin Members(mlistSlots'[sig])
  BY <1>8, <1>9
<1>14. \A d \in Calls : call[d].op \in OnSignal => call[d].sig \in Signals
  BY CallTyped
<1>15. AddExact'
  BY <1>0, <1>2, <1>13, <1>14 DEF AddExact, Changes, OnSignal
<1>16. RemoveExact'
  BY <1>0, <1>2, <1>13, <1>14 DEF RemoveExact, Changes, OnSignal
<1>17. DestroyExact'
  BY <1>0, <1>2, <1>13, <1>14 DEF DestroyExact, Changes, Loops, OnSignal
<1>18. PointedLive' /\ ListedSlotsExist'
  BY <1>2, <1>3, <1>9 DEF PointedLive, LivesExact, ListedSlotsExist
<1>19. QED
  BY <1>10, <1>11, <1>12, <1>15, <1>16, <1>17, <1>18

LEMMA AddStepSlots ==
  ASSUME SInv, NEW c \in Calls, AddStep(c)
  PROVE  SlotsOK'
<1>0. /\ call[c].op = "add" /\ call[c].pc \in {"assert", "connect", "insert"}
      /\ OthersStay(c) /\ call'[c].op = "add"
      /\ call'[c].sig = call[c].sig /\ call'[c].slot = call[c].slot
      /\ call'[c].pc \in {"lock", "insert", "unlock"}
      /\ call[c].pc = "assert" => call'[c].pc = "lock"
  BY MethodAt, GotoEffect DEF AddStep, CheckAttached, ConnectSignal, Insert, At, SInv, LInv
<1>1. /\ UNCHANGED <<mMutex, slotLife, hasFunction>>
      /\ \A s \in Slots : mMutex[s] = None \/ mbActive'[s] = mbActive[s]
  <2>1. call[c].slot \in Slots
    BY <1>0, CallTyped DEF SInv, OnSlot, Changes
  <2>2. QED
    BY <2>1 DEF AddStep, CheckAttached, ConnectSignal, Insert, SlotFree, slotVars,
                fieldVars, SInv, LInv, TypeOK
<1>2. Continues(c) /\ ~HoldsSlot(c)
  BY <1>0 DEF Continues, HoldsSlot
<1>3. CASE CheckAttached(c)
  <2>1. Unconcerned(c)
    BY <1>0, <1>2, <1>3 DEF CheckAttached, At, Unconcerned, signalVars, slotVars, fieldVars
  <2>2. QED
    BY <1>0, <1>1, <1>2, <1>3, <2>1, QuietStep DEF CheckAttached, At
<1>4. CASE ConnectSignal(c)
  <2>1. mlistSlots' = mlistSlots /\ ListedSlotsExist'
    BY <1>1, <1>4 DEF ConnectSignal, signalVars, SInv, SlotsOK, LivesExact, ListedSlotsExist
  <2>2. QED
    BY <1>0, <1>1, <1>2, <1>4, <2>1, ConnectAttaches, PlainStep
<1>5. CASE Insert(c)
  <2>1. OwnsList(c)
    BY <1>0, <1>5 DEF Insert, At, OwnsList, HoldsWrite, Changes
  <2>2. \A sg \in Signals : mlistSlots'[sg] = mlistSlots[sg] \/ sg = call[c].sig
    BY <1>5 DEF Insert, SInv, LInv, TypeOK
  <2>3. QED
    BY <1>0, <1>1, <1>2, <1>5, <2>1, <2>2, InsertAttaches, PlainStep
<1>6. QED
  BY <1>3, <1>4, <1>5 DEF AddStep

-----------------------------------------------------------------------------
(* Taking the mutex of a slot and giving it back.                          *)
LEMMA SlotLocked ==
  ASSUME SInv, NEW c \in Calls, NEW s \in Slots, OthersStay(c), mMutex[s] = None,
         mMutex' = [mMutex EXCEPT ![s] = c], ~HoldsSlot(c), HoldsSlot(c)',
         call'[c].slot = s
  PROVE  SlotLocksExact'
<1>1. \A t \in Slots : mMutex'[t] = IF t = s THEN c ELSE mMutex[t]
  BY DEF SInv, LInv, TypeOK
<1>2. \A d \in Calls, t \in Slots : d # c =>
        ((HoldsSlot(d) /\ call[d].slot = t)' <=> HoldsSlot(d) /\ call[d].slot = t)
  BY DEF OthersStay, HoldsSlot
<1>3. \A d \in Calls : d # None
  BY ConstantsAssumption
<1>4. QED
  BY <1>1, <1>2, <1>3 DEF SInv, SlotsOK, SlotLocksExact

LEMMA SlotUnlocked ==
  ASSUME SInv, NEW c \in Calls, OthersStay(c), HoldsSlot(c), ~HoldsSlot(c)',
         mMutex' = [mMutex EXCEPT ![call[c].slot] = None]
  PROVE  SlotLocksExact'
<1>1. \A t \in Slots : mMutex'[t] = IF t = call[c].slot THEN None ELSE mMutex[t]
  BY DEF SInv, LInv, TypeOK
<1>2. \A d \in Calls, t \in Slots : d # c =>
        ((HoldsSlot(d) /\ call[d].slot = t)' <=> HoldsSlot(d) /\ call[d].slot = t)
  BY DEF OthersStay, HoldsSlot
<1>3. \A d \in Calls : d # None
  BY ConstantsAssumption
<1>4. call[c].slot \in Slots /\ mMutex[call[c].slot] = c
  BY CallTyped DEF SInv, SlotsOK, SlotLocksExact
<1>5. QED
  BY <1>1, <1>2, <1>3, <1>4 DEF SInv, SlotsOK, SlotLocksExact

-----------------------------------------------------------------------------
LEMMA UnlinkAttaches ==
  ASSUME SInv, NEW c \in Calls, Unlink(c)
  PROVE  Attachments' /\ ListedSlotsExist'
<1> USE DEF SInv, SlotsOK, Attachments
<1> DEFINE s == call[c].slot
           sg == call[c].sig
           new == RawRemoveSlot(mlistSlots[sg], s)
<1>0. /\ call[c].op \in {"remove", "destroySlot"} /\ call[c].pc = "unlink" /\ OthersStay(c)
      /\ call'[c].op = call[c].op /\ call'[c].pc = "release"
      /\ call'[c].sig = sg /\ call'[c].slot = s
      /\ \A d \in Calls : d # c => call'[d] = call[d]
  BY MethodAt, GotoEffect DEF Unlink, At, LInv, OthersStay
<1>1. OwnsList(c) /\ HoldsWrite(c)
  BY <1>0 DEF OwnsList, HoldsWrite, Changes
<1>2. s \in Slots /\ sg \in Signals
  BY <1>0, <1>1, CallTyped DEF OnSlot, Changes
<1>3. UNCHANGED <<mpcSignal, signalLife, slotLife>>
  BY DEF Unlink, slotVars, fieldVars
<1>4. /\ new \in Seq(Slots) /\ Members(new) = Members(mlistSlots[sg]) \ {s}
      /\ NoDuplicates(new)
  <2>1. mlistSlots[sg] \in Seq(Slots) /\ NoDuplicates(mlistSlots[sg])
    BY <1>2 DEF ListsUnique, LInv, TypeOK
  <2>2. QED
    BY <2>1, RemoveKeepsOthers
<1>5. /\ mlistSlots'[sg] = new
      /\ \A sig \in Signals : sig # sg => mlistSlots'[sig] = mlistSlots[sig]
  BY <1>2 DEF Unlink, LInv, TypeOK
<1> HIDE DEF new
<1>6. \A i \in Nat : ~Passed(sg, i)
  BY <1>0, <1>1, PassedByOwner DEF Releasing
<1>7. \A t \in Members(mlistSlots[sg]) : mpcSignal[t] = sg
  BY <1>2, <1>6 DEF EntriesPoint, Members, LInv, TypeOK
<1>8. \A sig \in Signals : Members(mlistSlots'[sig]) \subseteq Members(mlistSlots[sig])
  BY <1>4, <1>5
<1>9. \A d \in Calls : call[d].op \in OnSignal => call[d].sig \in Signals
  BY CallTyped
<1>10. ListsUnique'
  BY <1>4, <1>5 DEF ListsUnique
<1>11. EntriesPoint'
  <2>1. \A sig, i : Passed(sig, i)' <=> Passed(sig, i)
    BY <1>0 DEF Passed, Releasing
  <2> SUFFICES ASSUME NEW sig \in Signals, NEW i \in DOMAIN mlistSlots'[sig]
               PROVE  mpcSignal[mlistSlots'[sig][i]] = sig <=> ~Passed(sig, i)
    BY <1>3, <2>1 DEF EntriesPoint
  <2>2. CASE sig = sg
    <3>1. new[i] \in Members(mlistSlots[sg]) /\ i \in Nat
      BY <1>4, <1>5, <2>2 DEF Members
    <3>2. QED
      BY <1>5, <1>6, <1>7, <2>2, <3>1
  <2>3. CASE sig # sg
    BY <1>5, <2>3 DEF EntriesPoint
  <2>4. QED
    BY <2>2, <2>3
<1>12. PointersListed'
  <2> SUFFICES ASSUME NEW t \in Slots, NEW sig \in Signals, mpcSignal[t] = sig
               PROVE  t \in Members(mlistSlots'[sig]) \/ HalfAttached(t, sig)'
    BY <1>3 DEF PointersListed
  <2>1. t \in Members(mlistSlots[sig]) \/ HalfAttached(t, sig)
    BY DEF PointersListed
  <2>2. HalfAttached(t, sig) => HalfAttached(t, sig)'
    BY <1>0 DEF HalfAttached
  <2>3. t = s /\ sig = sg => HalfAttached(t, sig)'
    BY <1>0 DEF HalfAttached
  <2>4. QED
    BY <1>4, <1>5, <2>1, <2>2, <2>3
<1>13. AddExact'
  BY <1>0, <1>3, <1>8, <1>9 DEF AddExact, OnSignal
<1>14. RemoveExact'
  BY <1>0, <1>2, <1>3, <1>4, <1>5, <1>8, <1>9 DEF RemoveExact, OnSignal
<1>15. DestroyExact'
  <2>1. \A d \in Calls : call[d].op \in Loops => call[d].sig \in Signals
    BY <1>9 DEF OnSignal
  <2>2. ASSUME call[c].op = "destroySlot", NEW sig \in Signals, s \in Members(mlistSlots'[sig])
        PROVE  FALSE
    <3>1. s \in Members(mlistSlots[sig]) /\ sig # sg
      BY <1>4, <1>5, <1>8, <2>2
    <3>2. mpcSignal[s] = sg
      BY <1>0, <2>2 DEF DestroyExact
    <3>3. PICK i \in DOMAIN mlistSlots[sig] : mlistSlots[sig][i] = s
      BY <3>1 DEF Members
    <3>4. Passed(sig, i)
      BY <3>1, <3>2, <3>3 DEF EntriesPoint
    <3>5. PICK d \in Calls : call[d].op \in Loops /\ call[d].sig = sig
      BY <3>4 DEF Passed, Releasing, Loops
    <3>6. QED
      BY <2>2, <3>1, <3>5 DEF DestroyExact
  <2>3. \A d \in Calls : d # c /\ call[d].op = "destroySlot" => call'[d] = call[d]
    BY <1>0
  <2>4. QED
    BY <1>0, <1>3, <1>8, <2>1, <2>2, <2>3 DEF DestroyExact
<1>16. PointedLive' /\ ListedSlotsExist'
  BY <1>3, <1>8 DEF PointedLive, LivesExact, ListedSlotsExist
<1>17. QED
  BY <1>10, <1>11, <1>12, <1>13, <1>14, <1>15, <1>16

(* The cursor of a releasing loop is on a slot of its list. *)
LEMMA CursorOnSlot ==
  ASSUME SInv, NEW c \in Calls, call[c].op \in Loops,
         call[c].pc \in {"iterate", "release"}, ~AtEnd(c)
  PROVE  /\ call[c].sig \in Signals /\ call[c].pos \in DOMAIN mlistSlots[call[c].sig]
         /\ SlotAt(c) = mlistSlots[call[c].sig][call[c].pos]
         /\ SlotAt(c) \in Members(mlistSlots[call[c].sig]) /\ SlotAt(c) \in Slots
<1>1. /\ call[c].sig \in Signals /\ call[c].pos \in Nat /\ call[c].pos >= 1
  <2>1. call[c] \in Frame /\ FrameOK(call[c])
    BY FrameFields DEF SInv, LInv
  <2>2. QED
    BY <2>1 DEF FrameOK, Frame, OnSignal
<1>2. mlistSlots[call[c].sig] \in Seq(Slots)
  BY <1>1 DEF SInv, LInv, TypeOK
<1>3. call[c].pos \in 1..Len(mlistSlots[call[c].sig])
  BY <1>1, <1>2 DEF AtEnd
<1>4. SlotAt(c) = mlistSlots[call[c].sig][call[c].pos]
  BY DEF SlotAt
<1>5. QED
  BY <1>1, <1>2, <1>3, <1>4 DEF Members

(* What a release does, by the two kinds of callers.                       *)
LEMMA ReleaseEffect ==
  ASSUME SInv, NEW c \in Calls, ReleaseSignal(c)
  PROVE  /\ call[c].op \in {"remove", "removeAll", "destroySlot", "destroySignal"}
         /\ call[c].pc = "release" /\ call'[c].pc = "released" /\ OthersStay(c)
         /\ call'[c].op = call[c].op /\ call'[c].sig = call[c].sig
         /\ call'[c].pos = call[c].pos /\ call'[c].slot = SlotAt(c)
         /\ call[c].sig \in Signals /\ SlotAt(c) \in Slots
         /\ call[c].op \notin Loops => SlotAt(c) = call[c].slot
         /\ OwnsList(c)
         /\ UNCHANGED <<mlistSlots, signalLife, slotLife, hasFunction>>
         /\ mpcSignal' = [mpcSignal EXCEPT ![SlotAt(c)] = None]
<1>1. /\ call[c] \in Frame /\ call \in [Calls -> Frame] /\ call[c].pc = "release"
      /\ call[c].op \in {"remove", "removeAll", "destroySlot", "destroySignal"}
  BY FrameFields, MethodAt DEF SInv, LInv, TypeOK, ReleaseSignal, At
<1>2. SlotAt(c) \in Slots /\ (call[c].op \notin Loops => SlotAt(c) = call[c].slot)
  BY <1>1, SlotAtTyped DEF SInv, LInv, ReleaseSignal, SlotAt
<1>3. call' = [call EXCEPT ![c].pc = "released", ![c].slot = SlotAt(c)]
  BY DEF ReleaseSignal
<1>4. /\ call'[c].pc = "released" /\ call'[c].op = call[c].op /\ call'[c].sig = call[c].sig
      /\ call'[c].pos = call[c].pos /\ call'[c].slot = SlotAt(c) /\ OthersStay(c)
  BY <1>1, <1>3 DEF Frame, OthersStay
<1>5. OwnsList(c)
  BY <1>1 DEF OwnsList, HoldsWrite, Changes
<1>6. call[c].sig \in Signals
  BY <1>1, CallTyped DEF SInv, HoldsWrite, Changes, OnSignal, Loops
<1>7. QED
  BY <1>1, <1>2, <1>4, <1>5, <1>6 DEF ReleaseSignal, signalVars

(* remove and ~SlotBase release a slot that they have taken out. *)
LEMMA ReleaseOneAttaches ==
  ASSUME SInv, NEW c \in Calls, ReleaseSignal(c), call[c].op \in {"remove", "destroySlot"}
  PROVE  Attachments'
<1> USE DEF SInv, SlotsOK, Attachments
<1> DEFINE s == SlotAt(c)
           sg == call[c].sig
<1>0. /\ call[c].pc = "release" /\ call'[c].pc = "released" /\ call'[c].op = call[c].op
      /\ call'[c].sig = sg /\ call'[c].slot = s /\ call[c].slot = s
      /\ s \in Slots /\ sg \in Signals
      /\ UNCHANGED <<mlistSlots, signalLife>>
      /\ \A d \in Calls : d # c => call'[d] = call[d]
  BY ReleaseEffect DEF OthersStay, Loops
<1>1. \A t \in Slots : mpcSignal'[t] = IF t = s THEN None ELSE mpcSignal[t]
  BY ReleaseEffect DEF LInv, TypeOK
<1>2. \A d \in Calls : d # c /\ call[d].op \in Changes =>
        call[d].slot \in Slots /\ call[d].slot # s
  BY <1>0, CallTyped DEF SlotOwners, Changes, OnSlot
<1>3. s \notin Members(mlistSlots[sg])
  BY <1>0 DEF RemoveExact, DestroyExact
<1>4. \A sig \in Signals : sig # None
  BY ConstantsAssumption
<1>5. \A sig \in Signals : s \in Members(mlistSlots[sig]) => mpcSignal[s] # sig
  BY <1>0, <1>3, <1>4 DEF RemoveExact, DestroyExact
<1>6. EntriesPoint'
  <2>1. \A sig, i : Passed(sig, i)' <=> Passed(sig, i)
    BY <1>0 DEF Passed, Releasing
  <2> SUFFICES ASSUME NEW sig \in Signals, NEW i \in DOMAIN mlistSlots[sig]
               PROVE  mpcSignal'[mlistSlots[sig][i]] = sig <=> ~Passed(sig, i)
    BY <1>0, <2>1 DEF EntriesPoint
  <2>2. mpcSignal[mlistSlots[sig][i]] = sig <=> ~Passed(sig, i)
    BY DEF EntriesPoint
  <2>3. mlistSlots[sig][i] \in Slots /\ mlistSlots[sig][i] \in Members(mlistSlots[sig])
    BY DEF LInv, TypeOK, Members
  <2>4. QED
    BY <1>1, <1>4, <1>5, <2>2, <2>3
<1>7. PointersListed'
  <2> SUFFICES ASSUME NEW t \in Slots, NEW sig \in Signals, mpcSignal'[t] = sig
               PROVE  t \in Members(mlistSlots[sig]) \/ HalfAttached(t, sig)'
    BY <1>0 DEF PointersListed
  <2>1. t # s /\ mpcSignal[t] = sig
    BY <1>1, <1>4
  <2>2. t \in Members(mlistSlots[sig]) \/ HalfAttached(t, sig)
    BY <2>1 DEF PointersListed
  <2>3. HalfAttached(t, sig) => HalfAttached(t, sig)'
    BY <1>0, <2>1 DEF HalfAttached
  <2>4. QED
    BY <2>2, <2>3
<1>8. \A d \in Calls : d # c /\ call[d].op \in Changes =>
        mpcSignal'[call[d].slot] = mpcSignal[call[d].slot]
  BY <1>1, <1>2
<1>9. AddExact'
  BY <1>0, <1>8 DEF AddExact, Changes
<1>10. RemoveExact'
  BY <1>0, <1>1, <1>8 DEF RemoveExact, Changes
<1>11. DestroyExact'
  BY <1>0, <1>8 DEF DestroyExact, Changes, Loops
<1>12. ListsUnique' /\ PointedLive'
  BY <1>0, <1>1 DEF ListsUnique, PointedLive
<1>13. QED
  BY <1>6, <1>7, <1>9, <1>10, <1>11, <1>12

(* rawRemoveAll releases the slot at its cursor, which is passed then. *)
LEMMA ReleaseListedAttaches ==
  ASSUME SInv, NEW c \in Calls, ReleaseSignal(c), call[c].op \in Releasing
  PROVE  Attachments'
<1> USE DEF SInv, SlotsOK, Attachments
<1> DEFINE s == SlotAt(c)
           sg == call[c].sig
           pos == call[c].pos
<1>0. /\ call[c].pc = "release" /\ call'[c].pc = "released" /\ call'[c].op = call[c].op
      /\ call'[c].sig = sg /\ call'[c].pos = pos /\ OwnsList(c)
      /\ s \in Slots /\ sg \in Signals
      /\ UNCHANGED <<mlistSlots, signalLife>>
      /\ \A d \in Calls : d # c => call'[d] = call[d]
  BY ReleaseEffect DEF OthersStay
<1>1. \A t \in Slots : mpcSignal'[t] = IF t = s THEN None ELSE mpcSignal[t]
  BY ReleaseEffect DEF LInv, TypeOK
<1>2. /\ pos \in DOMAIN mlistSlots[sg] /\ s = mlistSlots[sg][pos]
      /\ s \in Members(mlistSlots[sg]) /\ pos \in Nat
  <2>1. call[c].op \in Loops /\ ~AtEnd(c)
    BY DEF Releasing, Loops, ReleaseSignal
  <2>2. QED
    BY <1>0, <2>1, CursorOnSlot DEF LInv, TypeOK
<1>3. mpcSignal[s] = sg
  <2>1. ~Passed(sg, pos)
    BY <1>0, <1>2, PassedByOwner
  <2>2. QED
    BY <1>0, <1>2, <2>1 DEF EntriesPoint
<1>4. \A sig \in Signals : sig # None
  BY ConstantsAssumption
<1>5. EntriesPoint'
  <2> SUFFICES ASSUME NEW sig \in Signals, NEW i \in DOMAIN mlistSlots[sig]
               PROVE  mpcSignal'[mlistSlots[sig][i]] = sig <=> ~Passed(sig, i)'
    BY <1>0 DEF EntriesPoint
  <2>1. mpcSignal[mlistSlots[sig][i]] = sig <=> ~Passed(sig, i)
    BY DEF EntriesPoint
  <2>2. mlistSlots[sig][i] \in Slots
    BY DEF LInv, TypeOK
  <2>3. CASE sig = sg
    <3>1. Passed(sig, i)' <=> Passed(sig, i) \/ i = pos
      BY <1>0, <2>3 DEF Passed
    <3>2. i # pos => mlistSlots[sig][i] # s
      BY <1>2, <2>3 DEF ListsUnique, NoDuplicates
    <3>3. QED
      BY <1>1, <1>2, <1>4, <2>1, <2>2, <2>3, <3>1, <3>2
  <2>4. CASE sig # sg
    <3>1. Passed(sig, i)' <=> Passed(sig, i)
      BY <1>0, <2>4 DEF Passed
    <3>2. QED
      BY <1>1, <1>3, <1>4, <2>1, <2>2, <2>4, <3>1
  <2>5. QED
    BY <2>3, <2>4
<1>6. PointersListed'
  <2> SUFFICES ASSUME NEW t \in Slots, NEW sig \in Signals, mpcSignal'[t] = sig
               PROVE  t \in Members(mlistSlots[sig]) \/ HalfAttached(t, sig)'
    BY <1>0 DEF PointersListed
  <2>1. t # s /\ mpcSignal[t] = sig
    BY <1>1, <1>4
  <2>2. t \in Members(mlistSlots[sig]) \/ HalfAttached(t, sig)
    BY <2>1 DEF PointersListed
  <2>3. HalfAttached(t, sig) => HalfAttached(t, sig)'
    BY <1>0 DEF HalfAttached, Releasing
  <2>4. QED
    BY <2>2, <2>3
<1>7. \A d \in Calls : call[d].op \in Changes => call[d].slot \in Slots
  BY CallTyped DEF OnSlot
<1>8. AddExact'
  <2>1. ASSUME NEW d \in Calls, call[d].op = "add", call[d].pc = "insert", call[d].slot = s
        PROVE  FALSE
    <3>1. call[d].sig = sg
      BY <1>3, <2>1 DEF AddExact
    <3>2. OwnsList(d)
      BY <2>1 DEF OwnsList, HoldsWrite, Changes
    <3>3. c = d
      BY <1>0, <3>1, <3>2, OwnerUnique
    <3>4. QED
      BY <1>0, <2>1, <3>3
  <2>2. QED
    BY <1>0, <1>1, <1>7, <2>1 DEF AddExact, Changes, Releasing
<1>9. RemoveExact'
  BY <1>0, <1>1, <1>7 DEF RemoveExact, Changes, Releasing
<1>10. DestroyExact'
  <2>1. \A d \in Calls : call[d].op = "destroySlot" => call[d].slot # s
    BY <1>2 DEF DestroyExact, Releasing, Loops
  <2>2. QED
    BY <1>0, <1>1, <1>7, <2>1 DEF DestroyExact, Changes, Releasing, Loops
<1>11. ListsUnique' /\ PointedLive'
  BY <1>0, <1>1 DEF ListsUnique, PointedLive
<1>12. QED
  BY <1>5, <1>6, <1>8, <1>9, <1>10, <1>11

LEMMA ReleaseSlots ==
  ASSUME SInv, NEW c \in Calls, ReleaseSignal(c)
  PROVE  SlotsOK'
<1> DEFINE s == SlotAt(c)
<1>0. /\ call[c].op \in {"remove", "removeAll", "destroySlot", "destroySignal"}
      /\ call[c].pc = "release" /\ call'[c].pc = "released" /\ OthersStay(c)
      /\ call'[c].op = call[c].op /\ call'[c].sig = call[c].sig
      /\ call'[c].pos = call[c].pos /\ call'[c].slot = s /\ s \in Slots
      /\ call[c].op \notin Loops => s = call[c].slot
      /\ UNCHANGED <<mlistSlots, signalLife, slotLife, hasFunction>>
  BY ReleaseEffect
<1>1. /\ mMutex[s] = None /\ mMutex' = [mMutex EXCEPT ![s] = c]
      /\ \A t \in Slots : t # s => mbActive'[t] = mbActive[t] /\ mMutex'[t] = mMutex[t]
  BY <1>0 DEF ReleaseSignal, SlotFree, SInv, LInv, TypeOK
<1> HIDE DEF s
<1>2. Attachments'
  BY <1>0, ReleaseOneAttaches, ReleaseListedAttaches DEF Releasing
<1>3. Continues(c)
  BY <1>0 DEF Continues, OnSlot, Changes, SlotOps, Loops
<1>4. FramesExact'
  <2>1. FrameExact(call[c])
    BY DEF SInv, SlotsOK, FramesExact
  <2>2. FrameExact(call'[c])
    BY <1>0, <2>1 DEF FrameExact
  <2>3. QED
    BY <1>0, <2>2, FramesKept
<1>5. SlotLocksExact'
  BY <1>0, <1>1, SlotLocked DEF HoldsSlot
<1>6. CursorExact'
  <2>1. AtEnd(c)' <=> AtEnd(c)
    BY <1>0 DEF AtEnd
  <2>2. call[c].op \in Loops => SlotAt(c)' = s
    BY <1>0 DEF SlotAt, s
  <2>3. CursorOK(c)'
    BY <1>0, <2>1, <2>2 DEF CursorOK, ReleaseSignal
  <2>4. QED
    BY <1>0, <2>3, CursorsKept
<1>7. CallbackReady'
  BY <1>0, <1>1, ReadyKept
<1>8. LivesExact'
  <2>1. slotLife[s] # "dead"
    <3>1. CASE call[c].op \in Loops
      <4>1. call[c].sig \in Signals /\ s \in Members(mlistSlots[call[c].sig])
        BY <1>0, <3>1, CursorOnSlot DEF ReleaseSignal, s
      <4>2. QED
        BY <4>1 DEF SInv, SlotsOK, LivesExact, ListedSlotsExist
    <3>2. CASE call[c].op \notin Loops
      BY <1>0, <3>2 DEF SInv, SlotsOK, LivesExact, OnSlot, Changes, Loops
    <3>3. QED
      BY <3>1, <3>2
  <2>2. ListedSlotsExist'
    BY <1>0 DEF SInv, SlotsOK, LivesExact, ListedSlotsExist
  <2>3. QED
    BY <1>0, <1>1, <1>3, <2>1, <2>2, LivesKept
<1>9. QED
  BY <1>2, <1>3, <1>4, <1>5, <1>6, <1>7, <1>8, OwnersKept DEF SlotsOK

LEMMA UnlockSlotAttaches ==
  ASSUME SInv, NEW c \in Calls, call[c].pc = "released", OthersStay(c),
         UNCHANGED <<mlistSlots, mpcSignal, signalLife>>,
         call'[c].op = call[c].op, call'[c].sig = call[c].sig,
         call[c].op \in OnSlot => call'[c].slot = call[c].slot,
         \/ /\ call[c].op \in Releasing
            /\ call'[c].pc = "release" /\ call'[c].pos = call[c].pos + 1
         \/ call[c].op \in {"remove", "destroySlot"} /\ call'[c].pc = "unlock"
  PROVE  Attachments'
<1> USE DEF SInv, SlotsOK, Attachments
<1>0. \A d \in Calls : d # c => call'[d] = call[d]
  BY DEF OthersStay
<1>1. call[c].pos \in Nat
  BY CallTyped
<1>2. EntriesPoint'
  <2> SUFFICES ASSUME NEW sg \in Signals, NEW i \in DOMAIN mlistSlots[sg]
               PROVE  Passed(sg, i)' <=> Passed(sg, i)
    BY DEF EntriesPoint
  <2>1. i \in Nat
    BY DEF LInv, TypeOK
  <2>2. i < call[c].pos + 1 <=> i < call[c].pos \/ i = call[c].pos
    BY <1>1, <2>1
  <2>3. QED
    BY <1>0, <2>2 DEF Passed, Releasing
<1>3. PointersListed'
  <2>1. \A s \in Slots, sg \in Signals : HalfAttached(s, sg) => HalfAttached(s, sg)'
    BY <1>0 DEF HalfAttached
  <2>2. QED
    BY <2>1 DEF PointersListed
<1>4. AddExact'
  BY <1>0 DEF AddExact, Releasing
<1>5. RemoveExact'
  BY <1>0 DEF RemoveExact, Releasing, OnSlot, Changes
<1>6. DestroyExact'
  BY <1>0 DEF DestroyExact, Releasing, OnSlot, Changes, Loops
<1>7. ListsUnique' /\ PointedLive'
  BY DEF ListsUnique, PointedLive
<1>8. QED
  BY <1>2, <1>3, <1>4, <1>5, <1>6, <1>7

LEMMA UnlockSlotSlots ==
  ASSUME SInv, NEW c \in Calls, UnlockSlot(c)
  PROVE  SlotsOK'
<1>0. /\ call[c] \in Frame /\ call \in [Calls -> Frame] /\ call[c].pc = "released"
      /\ call[c].op \in {"remove", "removeAll", "destroySlot", "destroySignal"}
  BY FrameFields, MethodAt DEF SInv, LInv, TypeOK, UnlockSlot, At
<1>1. /\ OthersStay(c) /\ call'[c].op = call[c].op /\ call'[c].sig = call[c].sig
      /\ call[c].op \in OnSlot => call'[c].slot = call[c].slot
      /\ \/ /\ call[c].op \in Releasing /\ call'[c].slot = None
            /\ call'[c].pc = "release" /\ call'[c].pos = call[c].pos + 1
         \/ call[c].op \in {"remove", "destroySlot"} /\ call'[c].pc = "unlock"
  <2>1. CASE call[c].op \in Loops
    BY <1>0, <2>1 DEF UnlockSlot, Frame, OthersStay, Loops, Releasing, OnSlot, Changes, SlotOps
  <2>2. CASE call[c].op \notin Loops
    BY <1>0, <2>2, GotoEffect DEF UnlockSlot, SInv, LInv, Loops
  <2>3. QED
    BY <2>1, <2>2
<1>2. /\ UNCHANGED <<mlistSlots, signalLife, slotLife, hasFunction, mbActive, mpcSignal>>
      /\ mMutex' = [mMutex EXCEPT ![call[c].slot] = None]
  BY DEF UnlockSlot, signalVars, fieldVars
<1>3. Continues(c) /\ call'[c].pc \in {"release", "unlock"}
  BY <1>1 DEF Continues
<1>4. Attachments'
  BY <1>0, <1>1, <1>2, UnlockSlotAttaches
<1>5. FramesExact'
  <2>1. FrameExact(call[c])
    BY DEF SInv, SlotsOK, FramesExact
  <2>2. FrameExact(call'[c])
    BY <1>0, <1>1, <1>3, <2>1 DEF FrameExact, OnSlot, Changes
  <2>3. QED
    BY <1>1, <2>2, FramesKept
<1>6. SlotLocksExact'
  BY <1>0, <1>1, <1>2, <1>3, SlotUnlocked DEF HoldsSlot
<1>7. CursorExact' /\ CallbackReady'
  BY <1>1, <1>2, <1>3, CursorsKept, ReadyKept DEF CursorOK
<1>8. LivesExact'
  <2>1. ListedSlotsExist'
    BY <1>2 DEF SInv, SlotsOK, LivesExact, ListedSlotsExist
  <2>2. \A t \in Slots : mMutex'[t] \in {mMutex[t], None}
    BY <1>2 DEF SInv, LInv, TypeOK
  <2>3. QED
    BY <1>0, <1>1, <1>2, <1>3, <2>1, <2>2, LivesKept
<1>9. QED
  BY <1>3, <1>4, <1>5, <1>6, <1>7, <1>8, OwnersKept DEF SlotsOK

(* When a loop is at its end all slots of the list are released, and as    *)
(* the list is its own nobody is linking a slot to the signal.             *)
LEMMA ClearedUnpointed ==
  ASSUME SInv, NEW c \in Calls, Clear(c)
  PROVE  \A s \in Slots : mpcSignal[s] # call[c].sig
<1> USE DEF SInv, SlotsOK, Attachments
<1> DEFINE sg == call[c].sig
<1>0. call[c].pc = "release" /\ call[c].op \in Releasing
  BY MethodAt DEF LInv, Clear, At, AtEnd, Releasing, Loops
<1>1. sg \in Signals /\ OwnsList(c) /\ call[c].pos \in Nat
  BY <1>0, CallTyped DEF Releasing, OnSignal, Loops, OwnsList, HoldsWrite
<1>2. \A i \in DOMAIN mlistSlots[sg] : Passed(sg, i)
  <2>1. call[c].pos > Len(mlistSlots[sg]) /\ mlistSlots[sg] \in Seq(Slots)
    BY <1>1 DEF Clear, AtEnd, LInv, TypeOK
  <2>2. \A i \in DOMAIN mlistSlots[sg] : i < call[c].pos
    BY <1>1, <2>1
  <2>3. QED
    BY <1>0, <2>2 DEF Passed
<1>3. QED
  <2> SUFFICES ASSUME NEW s \in Slots, mpcSignal[s] = sg PROVE FALSE
    OBVIOUS
  <2>1. s \notin Members(mlistSlots[sg])
    BY <1>1, <1>2 DEF EntriesPoint, Members
  <2>2. PICK d \in Calls :
          /\ call[d].sig = sg
          /\ \/ call[d].op = "add" /\ call[d].pc = "insert"
             \/ call[d].op \in {"remove", "destroySlot"} /\ call[d].pc = "release"
    BY <1>1, <2>1 DEF PointersListed, HalfAttached
  <2>3. OwnsList(d)
    BY <2>2 DEF OwnsList, HoldsWrite, Changes
  <2>4. c = d
    BY <1>1, <2>2, <2>3, OwnerUnique
  <2>5. QED
    BY <1>0, <2>2, <2>4 DEF Releasing

LEMMA ClearAttaches ==
  ASSUME SInv, NEW c \in Calls, Clear(c)
  PROVE  Attachments' /\ ListedSlotsExist'
<1> USE DEF SInv, SlotsOK, Attachments
<1> DEFINE sg == call[c].sig
<1>0. /\ call[c] \in Frame /\ call \in [Calls -> Frame] /\ call[c].pc = "release"
      /\ call[c].op \in Releasing
  BY FrameFields, MethodAt DEF LInv, TypeOK, Clear, At, AtEnd, Releasing, Loops
<1>1. /\ sg \in Signals /\ OwnsList(c) /\ call[c].pos \in Nat
      /\ \A d \in Calls : call[d].op \in OnSignal => call[d].sig \in Signals
  BY <1>0, CallTyped DEF Releasing, OnSignal, Loops, OwnsList, HoldsWrite
<1>2. /\ \A d \in Calls : d # c => call'[d] = call[d]
      /\ \/ call'[c].op = "removeAll" /\ call'[c].pc = "unlock" /\ call'[c].sig = sg
            /\ signalLife' = signalLife
         \/ call'[c] = Idle /\ call[c].op = "destroySignal"
            /\ signalLife' = [signalLife EXCEPT ![sg] = "dead"]
  BY <1>0 DEF Clear, Return, Frame, Releasing
<1>3. /\ UNCHANGED <<mpcSignal, slotLife>> /\ mlistSlots'[sg] = <<>>
      /\ \A sig \in Signals : sig # sg => mlistSlots'[sig] = mlistSlots[sig]
  BY <1>1 DEF Clear, slotVars, fieldVars, LInv, TypeOK
<1>5. \A s \in Slots : mpcSignal[s] # sg
  BY ClearedUnpointed
<1>6. \A sig \in Signals : Members(mlistSlots'[sig]) \subseteq Members(mlistSlots[sig])
  BY <1>3 DEF Members
<1>7. ListsUnique'
  BY <1>3 DEF ListsUnique, NoDuplicates
<1>8. EntriesPoint'
  <2> SUFFICES ASSUME NEW sig \in Signals, NEW i \in DOMAIN mlistSlots'[sig]
               PROVE  mpcSignal[mlistSlots'[sig][i]] = sig <=> ~Passed(sig, i)'
    BY <1>3 DEF EntriesPoint
  <2>1. sig # sg /\ sig # None /\ mlistSlots'[sig] = mlistSlots[sig]
    BY <1>3, ConstantsAssumption
  <2>2. Passed(sig, i)' <=> Passed(sig, i)
    BY <1>2, <2>1 DEF Passed, Idle
  <2>3. QED
    BY <2>1, <2>2 DEF EntriesPoint
<1>9. PointersListed'
  <2> SUFFICES ASSUME NEW t \in Slots, NEW sig \in Signals, mpcSignal[t] = sig
               PROVE  t \in Members(mlistSlots'[sig]) \/ HalfAttached(t, sig)'
    BY <1>3 DEF PointersListed
  <2>1. sig # sg /\ (t \in Members(mlistSlots[sig]) \/ HalfAttached(t, sig))
    BY <1>5 DEF PointersListed
  <2>2. HalfAttached(t, sig) => HalfAttached(t, sig)'
    BY <1>2, <2>1 DEF HalfAttached
  <2>3. QED
    BY <1>3, <2>1, <2>2
<1>10. call'[c].op \notin {"add", "remove", "destroySlot", "destroySignal"}
  BY <1>2 DEF Idle
<1>11. \A d \in Calls : call'[d].op \in {"add", "remove"} =>
         /\ call'[d] = call[d] /\ mpcSignal'[call[d].slot] = mpcSignal[call[d].slot]
         /\ Members(mlistSlots'[call[d].sig]) \subseteq Members(mlistSlots[call[d].sig])
  BY <1>1, <1>2, <1>3, <1>6, <1>10 DEF OnSignal
<1>12. AddExact' /\ RemoveExact'
  BY <1>11, SMTT(30) DEF AddExact, RemoveExact
<1>13. DestroyExact'
  <2> SUFFICES ASSUME NEW d \in Calls, call[d].op = "destroySlot", d # c, call'[d] = call[d]
      PROVE  /\ \A e \in Calls :
                  /\ call'[e].op \in Loops => call[d].slot \notin Members(mlistSlots'[call'[e].sig])
                  /\ call'[e].op = "destroySignal" => call[d].sig # call'[e].sig
             /\ call[d].sig # None => signalLife'[call[d].sig] = "alive"
             /\ call[d].pc \in {"lock", "unlink", "release"} => mpcSignal[call[d].slot] = call[d].sig
             /\ call[d].pc \in {"release", "released", "unlock", "free"} =>
                  \A sig \in Signals : call[d].slot \notin Members(mlistSlots'[sig])
    BY <1>2, <1>3, <1>10 DEF DestroyExact
  <2>1. \A e \in Calls : call'[e].op \in Loops =>
          /\ call[e].op \in Loops /\ call'[e].sig = call[e].sig /\ call[e].sig \in Signals
          /\ call'[e].op = "destroySignal" => call[e].op = "destroySignal"
    BY <1>0, <1>1, <1>2, <1>10 DEF Loops, Releasing, OnSignal, Idle
  <2>2. call[c].op = "destroySignal" => call[d].sig # sg
    BY DEF DestroyExact
  <2>3. call[d].sig # None => signalLife'[call[d].sig] = "alive"
    <3>1. call[d].sig \in Signals \cup {None}
      BY CallTyped
    <3>2. QED
      BY <1>2, <2>2, <3>1 DEF DestroyExact, LInv, TypeOK
  <2>4. "destroySignal" \in Loops
    BY DEF Loops
  <2>5. QED
    BY <1>6, <2>1, <2>3, <2>4 DEF DestroyExact
<1>14. PointedLive'
  BY <1>2, <1>3, <1>5 DEF PointedLive, LInv, TypeOK
<1>15. ListedSlotsExist'
  BY <1>3, <1>6 DEF LivesExact, ListedSlotsExist
<1>16. QED
  BY <1>7, <1>8, <1>9, <1>12, <1>13, <1>14, <1>15

LEMMA RemoveStepSlots ==
  ASSUME SInv, NEW c \in Calls, RemoveStep(c)
  PROVE  SlotsOK'
<1>1. CASE Unlink(c)
  <2>1. /\ call[c].op \in {"remove", "destroySlot"} /\ call[c].pc = "unlink" /\ OthersStay(c)
        /\ call'[c].op = call[c].op /\ call'[c].pc = "release"
        /\ call'[c].sig = call[c].sig /\ call'[c].slot = call[c].slot
    BY <1>1, MethodAt, GotoEffect DEF Unlink, At, SInv, LInv
  <2>2. Continues(c) /\ OwnsList(c) /\ ~HoldsSlot(c)
    BY <2>1 DEF Continues, OwnsList, HoldsWrite, HoldsSlot, Changes
  <2>3. /\ UNCHANGED <<mMutex, slotLife, mbActive, hasFunction>>
        /\ \A sg \in Signals : mlistSlots'[sg] = mlistSlots[sg] \/ sg = call[c].sig
    BY <1>1 DEF Unlink, slotVars, fieldVars, SInv, LInv, TypeOK
  <2>4. QED
    BY <1>1, <2>1, <2>2, <2>3, UnlinkAttaches, PlainStep
<1>2. CASE Clear(c)
  <2>1. /\ call[c] \in Frame /\ call \in [Calls -> Frame] /\ call[c].pc = "release"
        /\ call[c].op \in Releasing
    BY <1>2, FrameFields, MethodAt DEF SInv, LInv, TypeOK, Clear, At, AtEnd, Releasing, Loops
  <2>2. /\ OthersStay(c)
        /\ \/ /\ call'[c].op = call[c].op /\ call'[c].pc = "unlock"
              /\ call'[c].sig = call[c].sig /\ call'[c].slot = call[c].slot
           \/ call'[c] = Idle
    BY <1>2, <2>1 DEF Clear, Return, Frame, OthersStay
  <2>3. Continues(c) /\ OwnsList(c) /\ ~HoldsSlot(c)
    BY <2>1, <2>2 DEF Continues, OwnsList, HoldsWrite, HoldsSlot, Releasing, OnSlot, Changes, SlotOps
  <2>4. /\ UNCHANGED <<mMutex, slotLife, mbActive, hasFunction>>
        /\ \A sg \in Signals : mlistSlots'[sg] = mlistSlots[sg] \/ sg = call[c].sig
    BY <1>2 DEF Clear, slotVars, fieldVars, SInv, LInv, TypeOK
  <2>5. QED
    BY <1>2, <2>1, <2>2, <2>3, <2>4, ClearAttaches, PlainStep DEF Releasing
<1>3. QED
  BY <1>1, <1>2, ReleaseSlots, UnlockSlotSlots DEF RemoveStep

-----------------------------------------------------------------------------
(* A dispatch locks the slot at its cursor for as long as its function     *)
(* runs.                                                                   *)
LEMMA VisitSlots ==
  ASSUME SInv, NEW c \in Calls, Visit(c)
  PROVE  SlotsOK'
<1> DEFINE s == SlotAt(c)
<1>0. /\ call[c] \in Frame /\ call \in [Calls -> Frame] /\ call[c].pc = "iterate"
      /\ call[c].op = "dispatch" /\ "dispatch" \in Loops
  BY FrameFields, MethodAt DEF SInv, LInv, TypeOK, Visit, At, Loops
<1>1. call[c].sig \in Signals /\ s \in Slots /\ s \in Members(mlistSlots[call[c].sig])
  BY <1>0, CursorOnSlot DEF Visit
<1>2. /\ OthersStay(c) /\ call'[c].op = "dispatch" /\ call'[c].sig = call[c].sig
      /\ UNCHANGED <<mlistSlots, mpcSignal, signalLife, slotLife, mbActive, hasFunction>>
  BY <1>0 DEF Visit, OthersStay, Frame, signalVars, fieldVars
<1>3. Continues(c) /\ "dispatch" \notin OnSlot /\ "dispatch" \in OnSignal
  BY <1>0, <1>2 DEF Continues, OnSlot, OnSignal, Changes, SlotOps, Loops
<1>4. ListedSlotsExist'
  BY <1>2 DEF SInv, SlotsOK, LivesExact, ListedSlotsExist
<1>5. CASE mbActive[s] /\ hasFunction[s]
  <2>1. /\ mMutex[s] = None /\ mMutex' = [mMutex EXCEPT ![s] = c]
        /\ call'[c].pc = "callback" /\ call'[c].slot = s /\ call'[c].pos = call[c].pos
    BY <1>0, <1>5 DEF Visit, SlotFree, Frame
  <2>2. Unconcerned(c)
    BY <1>0, <1>2, <1>3, <2>1 DEF Unconcerned
  <2>3. FramesExact'
    BY <1>2, <1>3, <2>1, FramesKept DEF FrameExact
  <2>4. SlotLocksExact'
    BY <1>0, <1>1, <1>2, <2>1, SlotLocked DEF HoldsSlot
  <2>5. CursorExact'
    <3>1. (AtEnd(c)' <=> AtEnd(c)) /\ SlotAt(c)' = s
      BY <1>0, <1>2, <2>1 DEF AtEnd, SlotAt
    <3>2. CursorOK(c)'
      BY <2>1, <3>1 DEF CursorOK, Visit
    <3>3. QED
      BY <1>2, <3>2, CursorsKept
  <2>6. CallbackReady'
    BY <1>2, <1>5, <2>1, ReadyKept
  <2>7. LivesExact'
    <3>1. slotLife[s] # "dead" /\ \A t \in Slots : mMutex'[t] = mMutex[t] \/ t = s
      BY <1>1, <2>1 DEF SInv, SlotsOK, LInv, TypeOK, LivesExact, ListedSlotsExist
    <3>2. QED
      BY <1>0, <1>2, <1>3, <1>4, <3>1, LivesKept
  <2>8. QED
    BY <1>3, <2>2, <2>3, <2>4, <2>5, <2>6, <2>7, OwnersKept, AttachmentsKept DEF SlotsOK
<1>6. CASE ~(mbActive[s] /\ hasFunction[s])
  <2>1. /\ mMutex' = mMutex /\ call'[c].pc = "iterate" /\ call'[c].slot = call[c].slot
    BY <1>0, <1>6 DEF Visit, Frame
  <2>2. Unconcerned(c) /\ ~HoldsSlot(c)
    BY <1>0, <1>2, <1>3, <2>1 DEF Unconcerned, HoldsSlot
  <2>3. QED
    BY <1>0, <1>2, <2>1, <2>2, QuietStep
<1>7. QED
  BY <1>5, <1>6

LEMMA FinishSlots ==
  ASSUME SInv, NEW c \in Calls, FinishCallback(c)
  PROVE  SlotsOK'
<1> DEFINE s == call[c].slot
<1>0. /\ call[c] \in Frame /\ call \in [Calls -> Frame] /\ call[c].pc = "callback"
      /\ call[c].op = "dispatch"
  BY FrameFields, MethodAt DEF SInv, LInv, TypeOK, FinishCallback, At
<1>1. HoldsSlot(c) /\ s \in Slots /\ mMutex[s] = c
  BY <1>0, CallTyped DEF HoldsSlot, SInv, SlotsOK, SlotLocksExact
<1>2. /\ OthersStay(c) /\ call'[c].op = "dispatch" /\ call'[c].sig = call[c].sig
      /\ call'[c].pc = "iterate" /\ call'[c].slot = None
      /\ UNCHANGED <<mlistSlots, mpcSignal, signalLife, slotLife, hasFunction>>
      /\ mMutex' = [mMutex EXCEPT ![s] = None]
      /\ \A t \in Slots : t # s => mbActive'[t] = mbActive[t]
  <2>1. /\ OthersStay(c) /\ call'[c].op = "dispatch" /\ call'[c].sig = call[c].sig
        /\ call'[c].pc = "iterate" /\ call'[c].slot = None
    BY <1>0 DEF FinishCallback, OthersStay, Frame
  <2>2. \A t \in Slots : t # s => mbActive'[t] = mbActive[t]
    BY DEF FinishCallback, SInv, LInv, TypeOK
  <2>3. QED
    BY <2>1, <2>2 DEF FinishCallback, signalVars
<1>3. Continues(c) /\ "dispatch" \in OnSignal /\ "dispatch" \notin OnSlot
  BY <1>0, <1>2 DEF Continues, OnSlot, OnSignal, Changes, SlotOps, Loops
<1>4. Unconcerned(c)
  BY <1>0, <1>2, <1>3 DEF Unconcerned
<1>5. FramesExact'
  BY <1>2, <1>3, FramesKept DEF FrameExact
<1>6. SlotLocksExact'
  BY <1>1, <1>2, SlotUnlocked DEF HoldsSlot
<1>7. CursorExact'
  BY <1>2, CursorsKept DEF CursorOK
<1>8. CallbackReady'
  <2>1. \A t \in Slots : mMutex[t] \in {None, c} \/ t # s
    BY <1>1
  <2>2. QED
    BY <1>2, <2>1, ReadyKept
<1>9. LivesExact'
  <2>1. ListedSlotsExist'
    BY <1>2 DEF SInv, SlotsOK, LivesExact, ListedSlotsExist
  <2>2. \A t \in Slots : mMutex'[t] \in {mMutex[t], None}
    BY <1>2 DEF SInv, LInv, TypeOK
  <2>3. QED
    BY <1>0, <1>2, <1>3, <2>1, <2>2, LivesKept
<1>10. QED
  BY <1>3, <1>4, <1>5, <1>6, <1>7, <1>8, <1>9, OwnersKept, AttachmentsKept DEF SlotsOK

LEMMA DispatchStepSlots ==
  ASSUME SInv, NEW c \in Calls, DispatchStep(c)
  PROVE  SlotsOK'
<1>1. CASE EndDispatch(c)
  <2>1. /\ call[c] \in Frame /\ call \in [Calls -> Frame] /\ call[c].pc = "iterate"
        /\ call[c].op = "dispatch"
    BY <1>1, FrameFields, MethodAt DEF SInv, LInv, TypeOK, EndDispatch, At
  <2>2. /\ OthersStay(c) /\ call'[c].op = "dispatch" /\ call'[c].sig = call[c].sig
        /\ call'[c].slot = call[c].slot /\ call'[c].pc \in {"complete", "unlock"}
        /\ UNCHANGED <<mlistSlots, mpcSignal, signalLife, slotLife, mMutex, mbActive, hasFunction>>
    BY <1>1, <2>1 DEF EndDispatch, OthersStay, Frame, signalVars, slotVars, fieldVars
  <2>3. Unconcerned(c) /\ ~HoldsSlot(c)
    BY <2>1, <2>2 DEF Unconcerned, Continues, HoldsSlot, OnSlot, Changes, SlotOps
  <2>4. QED
    BY <2>1, <2>2, <2>3, QuietStep
<1>2. QED
  BY <1>1, VisitSlots, FinishSlots DEF DispatchStep

-----------------------------------------------------------------------------
(* ~ThreadSlot destroys the function: nobody else uses the slot. *)
LEMMA DestroyFunctionSlots ==
  ASSUME SInv, NEW c \in Calls, DestroyFunction(c)
  PROVE  SlotsOK'
<1> DEFINE s == call[c].slot
<1>0. /\ call[c].pc = "dtor" /\ call[c].op = "destroySlot" /\ OthersStay(c)
      /\ call'[c].op = "destroySlot" /\ call'[c].pc = "detach"
      /\ call'[c].sig = call[c].sig /\ call'[c].slot = s
  BY MethodAt, GotoEffect DEF DestroyFunction, At, SInv, LInv
<1>1. /\ UNCHANGED <<mlistSlots, mpcSignal, signalLife, mMutex, mbActive, hasFunction>>
      /\ s \in Slots /\ slotLife' = [slotLife EXCEPT ![s] = "noFunction"]
  BY <1>0, CallTyped DEF SInv, DestroyFunction, signalVars, fieldVars, OnSlot, Changes
<1>2. Continues(c) /\ Unconcerned(c) /\ ~HoldsSlot(c) /\ ~HoldsSlot(c)'
  BY <1>0, <1>1 DEF Continues, Unconcerned, HoldsSlot
<1>3. FramesExact'
  <2>1. FrameExact(call[c])
    BY DEF SInv, SlotsOK, FramesExact
  <2>2. FrameExact(call'[c])
    BY <1>0, <2>1 DEF FrameExact, OnSlot, Changes
  <2>3. QED
    BY <1>0, <2>2, FramesKept
<1>4. SlotLocksExact' /\ CursorExact' /\ CallbackReady'
  BY <1>0, <1>1, <1>2, SlotLocksKept, CursorsKept, ReadyKept DEF CursorOK
<1>5. LivesExact'
  <2> USE DEF SInv, SlotsOK, LivesExact
  <2>1. \A t \in Slots : slotLife'[t] = IF t = s THEN "noFunction" ELSE slotLife[t]
    BY <1>1 DEF LInv, TypeOK
  <2>2. slotLife[s] = "alive"
    BY <1>0 DEF OnSlot, Changes
  <2>3. ListedSlotsExist'
    <3>1. \A sg \in Signals : Members(mlistSlots[sg]) \subseteq Slots
      BY DEF LInv, TypeOK, Members
    <3>2. QED
      BY <1>1, <2>1, <3>1 DEF ListedSlotsExist
  <2>4. \A d \in Calls : d # c /\ call[d].op \in OnSlot => call[d].slot \in Slots /\ call[d].slot # s
    BY <1>0, CallTyped DEF SlotOwners
  <2>5. \A d \in Calls : d # c => call'[d] = call[d]
    BY <1>0 DEF OthersStay
  <2>6. \A d \in Calls : call'[d].op \in OnSlot =>
          slotLife'[call'[d].slot] =
            (IF call'[d].op = "destroySlot" /\ call'[d].pc # "dtor" THEN "noFunction" ELSE "alive")
    BY <1>0, <1>1, <2>1, <2>4, <2>5
  <2>7. \A t \in Slots :
          /\ slotLife'[t] = "dead" => mMutex'[t] = None
          /\ slotLife'[t] = "noFunction" =>
               \E d \in Calls : call'[d].op = "destroySlot" /\ call'[d].slot = t
    BY <1>0, <1>1, <2>1, <2>5
  <2>8. QED
    BY <2>3, <2>6, <2>7
<1>6. QED
  BY <1>2, <1>3, <1>4, <1>5, OwnersKept, AttachmentsKept DEF SlotsOK

(* ~SlotBase reads mpcSignal: the slot is in the list of that signal, or   *)
(* in none.                                                                *)
LEMMA DetachAttaches ==
  ASSUME SInv, NEW c \in Calls, Detach(c)
  PROVE  Attachments'
<1> USE DEF SInv, SlotsOK, Attachments
<1> DEFINE s == call[c].slot
           sg == mpcSignal[s]
<1>0. /\ call[c] \in Frame /\ call \in [Calls -> Frame]
      /\ call[c].pc = "detach" /\ call[c].op = "destroySlot"
  BY FrameFields, MethodAt DEF Detach, At, LInv, TypeOK
<1>1. /\ call'[c].op = "destroySlot" /\ call'[c].sig = sg /\ call'[c].slot = s
      /\ call'[c].pc = (IF sg = None THEN "free" ELSE "lock")
      /\ \A d \in Calls : d # c => call'[d] = call[d]
  BY <1>0 DEF Detach, AfterDetach, Frame
<1>2. /\ UNCHANGED <<mlistSlots, mpcSignal, signalLife>>
      /\ s \in Slots /\ sg \in Signals \cup {None}
  BY <1>0, CallTyped DEF Detach, signalVars, slotVars, fieldVars, OnSlot, Changes, LInv, TypeOK
<1>3. ListsUnique' /\ PointedLive'
  BY <1>2 DEF ListsUnique, PointedLive
<1>4. EntriesPoint'
  <2>1. \A sig, i : Passed(sig, i)' <=> Passed(sig, i)
    BY <1>0, <1>1 DEF Passed, Releasing
  <2>2. QED
    BY <1>2, <2>1 DEF EntriesPoint
<1>5. PointersListed'
  <2>1. \A t \in Slots, sig \in Signals : HalfAttached(t, sig) => HalfAttached(t, sig)'
    BY <1>0, <1>1 DEF HalfAttached
  <2>2. QED
    BY <1>2, <2>1 DEF PointersListed
<1>6. AddExact'
  BY <1>1, <1>2 DEF AddExact
<1>7. RemoveExact'
  BY <1>1, <1>2 DEF RemoveExact
<1>8. ASSUME NEW d \in Calls, call[d].op = "destroySignal" PROVE sg # call[d].sig
  <2> SUFFICES ASSUME sg = call[d].sig PROVE FALSE
    OBVIOUS
  <2>1. sg \in Signals /\ call[d].op \in Loops
    BY <1>8, CallTyped DEF OnSignal, Loops
  <2>2. s \notin Members(mlistSlots[sg])
    BY <1>0, <2>1 DEF DestroyExact
  <2>3. HalfAttached(s, sg)
    BY <1>2, <2>1, <2>2 DEF PointersListed
  <2>4. PICK e \in Calls : call[e].slot = s /\ call[e].op \in Changes /\ e # c
    BY <1>0, <2>3 DEF HalfAttached, Changes
  <2>5. QED
    BY <1>0, <2>4 DEF SlotOwners, Changes
<1>9. sg = None => \A sig \in Signals : s \notin Members(mlistSlots[sig])
  <2> SUFFICES ASSUME sg = None, NEW sig \in Signals, s \in Members(mlistSlots[sig])
               PROVE  FALSE
    OBVIOUS
  <2>1. PICK i \in DOMAIN mlistSlots[sig] : mlistSlots[sig][i] = s
    BY DEF Members
  <2>2. Passed(sig, i)
    BY <2>1, ConstantsAssumption DEF EntriesPoint
  <2>3. PICK d \in Calls : call[d].op \in Loops /\ call[d].sig = sig
    BY <2>2 DEF Passed, Releasing, Loops
  <2>4. QED
    BY <1>0, <2>3 DEF DestroyExact
<1>10. sg # None => signalLife[sg] = "alive"
  BY <1>2 DEF PointedLive
<1>11. DestroyExact'
  BY <1>0, <1>1, <1>2, <1>8, <1>9, <1>10 DEF DestroyExact, Loops
<1>12. QED
  BY <1>3, <1>4, <1>5, <1>6, <1>7, <1>11

LEMMA DetachSlots ==
  ASSUME SInv, NEW c \in Calls, Detach(c)
  PROVE  SlotsOK'
<1>0. /\ call[c] \in Frame /\ call \in [Calls -> Frame]
      /\ call[c].pc = "detach" /\ call[c].op = "destroySlot"
  BY FrameFields, MethodAt DEF Detach, At, SInv, LInv, TypeOK
<1>1. /\ call'[c].op = "destroySlot" /\ call'[c].slot = call[c].slot
      /\ call'[c].pc \in {"free", "lock"} /\ OthersStay(c)
  BY <1>0 DEF Detach, AfterDetach, Frame, OthersStay
<1>2. UNCHANGED <<mlistSlots, mMutex, mbActive, hasFunction, slotLife>>
  BY DEF Detach, signalVars, slotVars, fieldVars
<1>3. Continues(c) /\ ~HoldsSlot(c) /\ ~HoldsSlot(c)'
  BY <1>0, <1>1 DEF Continues, HoldsSlot
<1>4. FramesExact'
  BY <1>1, FramesKept DEF FrameExact, OnSlot, Changes
<1>5. SlotLocksExact' /\ CursorExact' /\ CallbackReady'
  BY <1>1, <1>2, <1>3, SlotLocksKept, CursorsKept, ReadyKept DEF CursorOK
<1>6. ListedSlotsExist'
  BY <1>2 DEF SInv, SlotsOK, LivesExact, ListedSlotsExist
<1>7. LivesExact'
  BY <1>0, <1>1, <1>2, <1>3, <1>6, LivesKept
<1>8. QED
  BY <1>3, <1>4, <1>5, <1>7, OwnersKept, DetachAttaches DEF SlotsOK

(* The slot goes: no list names it, and nobody holds its mutex. *)
LEMMA FreeSlots ==
  ASSUME SInv, NEW c \in Calls, Free(c)
  PROVE  SlotsOK'
<1> DEFINE s == call[c].slot
<1>0. call[c].pc = "free" /\ call[c].op = "destroySlot" /\ OthersStay(c) /\ call'[c] = Idle
  BY MethodAt DEF Free, At, Return, OthersStay, SInv, LInv, TypeOK
<1>1. /\ UNCHANGED <<mlistSlots, mpcSignal, signalLife, mMutex, mbActive, hasFunction>>
      /\ s \in Slots /\ slotLife' = [slotLife EXCEPT ![s] = "dead"]
  BY <1>0, CallTyped DEF SInv, Free, signalVars, fieldVars, OnSlot, Changes
<1>2. Continues(c) /\ Unconcerned(c) /\ ~HoldsSlot(c) /\ ~HoldsSlot(c)'
  BY <1>0, <1>1 DEF Continues, Unconcerned, HoldsSlot, Idle
<1>3. FramesExact'
  BY <1>0, FramesKept DEF FrameExact, Idle, OnSlot, Changes, SlotOps
<1>4. SlotLocksExact' /\ CursorExact' /\ CallbackReady'
  BY <1>0, <1>1, <1>2, SlotLocksKept, CursorsKept, ReadyKept DEF CursorOK, Idle
<1>5. LivesExact'
  <2> USE DEF SInv, SlotsOK, LivesExact
  <2>1. \A t \in Slots : slotLife'[t] = IF t = s THEN "dead" ELSE slotLife[t]
    BY <1>1 DEF LInv, TypeOK
  <2>2. \A sg \in Signals : s \notin Members(mlistSlots[sg])
    BY <1>0 DEF Attachments, DestroyExact
  <2>3. ListedSlotsExist'
    <3>1. \A sg \in Signals : Members(mlistSlots[sg]) \subseteq Slots
      BY DEF LInv, TypeOK, Members
    <3>2. QED
      BY <1>1, <2>1, <2>2, <3>1 DEF ListedSlotsExist
  <2>4. mMutex[s] = None
    <3> SUFFICES ASSUME NEW d \in Calls, mMutex[s] = d PROVE FALSE
      BY <1>1 DEF LInv, TypeOK
    <3>1. HoldsSlot(d) /\ call[d].slot = s
      BY <1>1 DEF SlotLocksExact
    <3>2. CASE call[d].op \in Loops
      <4>1. ~AtEnd(d) /\ SlotAt(d) = s /\ call[d].pos \in Nat /\ call[d].sig \in Signals
        BY <3>1, <3>2, CallTyped DEF HoldsSlot, CursorExact, CursorOK, OnSignal
      <4>2. call[d].pos >= 1
        BY <3>1, <3>2 DEF HoldsSlot, LInv, TypeOK, FrameOK
      <4>3. call[d].pos \in DOMAIN mlistSlots[call[d].sig]
        BY <3>2, <4>1, <4>2 DEF AtEnd, LInv, TypeOK
      <4>4. s \in Members(mlistSlots[call[d].sig])
        BY <3>2, <4>1, <4>3 DEF SlotAt, Members
      <4>5. QED
        BY <2>2, <4>1, <4>4
    <3>3. CASE call[d].op \notin Loops
      <4>1. call[d].op \in {"remove", "destroySlot"}
        BY <3>1, <3>3, MethodAt DEF HoldsSlot, Loops, LInv
      <4>2. d # c
        BY <1>2, <3>1
      <4>3. QED
        BY <1>0, <3>1, <4>1, <4>2 DEF SlotOwners, Changes
    <3>4. QED
      BY <3>2, <3>3
  <2>5. \A d \in Calls : d # c /\ call[d].op \in OnSlot => call[d].slot \in Slots /\ call[d].slot # s
    BY <1>0, CallTyped DEF SlotOwners
  <2>6. /\ \A d \in Calls : d # c => call'[d] = call[d]
        /\ call'[c].op \notin OnSlot
    BY <1>0 DEF OthersStay, Idle, OnSlot, Changes, SlotOps
  <2>7. \A d \in Calls : call'[d].op \in OnSlot =>
          slotLife'[call'[d].slot] =
            (IF call'[d].op = "destroySlot" /\ call'[d].pc # "dtor" THEN "noFunction" ELSE "alive")
    BY <2>1, <2>5, <2>6
  <2>8. \A t \in Slots :
          /\ slotLife'[t] = "dead" => mMutex'[t] = None
          /\ slotLife'[t] = "noFunction" =>
               \E d \in Calls : call'[d].op = "destroySlot" /\ call'[d].slot = t
    BY <1>1, <2>1, <2>4, <2>6
  <2>9. QED
    BY <2>3, <2>7, <2>8
<1>6. QED
  BY <1>2, <1>3, <1>4, <1>5, OwnersKept, AttachmentsKept DEF SlotsOK

LEMMA DestroyStepSlots ==
  ASSUME SInv, NEW c \in Calls, DestroyStep(c)
  PROVE  SlotsOK'
BY DestroyFunctionSlots, DetachSlots, FreeSlots DEF DestroyStep

-----------------------------------------------------------------------------
(* Beginning a call: what the clients promise is what the invariant needs. *)
LEMMA BeginAttaches ==
  ASSUME SInv, "attached" \in ClientRules, "quiet" \in ClientRules,
         NEW c \in Calls, NEW op \in Ops, NEW a \in Signature(op), NEW p,
         Begin(c, op, a[1], a[2], p)
  PROVE  Attachments'
<1> USE DEF SInv, SlotsOK, Attachments
<1> DEFINE sg == a[1]
           s == a[2]
<1>0. /\ call[c].pc = "idle" /\ call[c].op = "none"
      /\ call'[c].pc = FirstPc(op) /\ call'[c].op = op /\ call'[c].sig = sg
      /\ call'[c].slot = s /\ (op = "destroySignal" => call'[c].pos = 1)
      /\ \A d \in Calls : d # c => call'[d] = call[d]
  <2>1. /\ call[c] \in Frame /\ FrameOK(call[c]) /\ call \in [Calls -> Frame]
        /\ call[c].pc = "idle"
    BY FrameFields DEF LInv, TypeOK, Begin, At
  <2>2. call[c].op = "none"
    BY <2>1 DEF FrameOK, Frame, PcsOf, Ops, OnSlot, OnSignal, Changes, SlotOps, ReadOps, Loops
  <2>3. QED
    BY <2>1, <2>2 DEF Begin
<1>1. ObjectsLive(op, sg, s) /\ OneOwner(op, s) /\ Attached(op, sg, s) /\ Quiet(op, sg, s)
  BY DEF Begin, Allowed
<1>2. UNCHANGED <<mlistSlots, mpcSignal, signalLife>>
  BY DEF Begin, signalVars, slotVars, fieldVars
<1>3. /\ op \in OnSignal => sg \in Signals
      /\ op \notin OnSignal => sg = None
      /\ op \in OnSlot => s \in Slots
  BY DEF Signature
<1>4. /\ op = "add" => FirstPc(op) = "assert"
      /\ op = "destroySlot" => FirstPc(op) = "dtor"
      /\ op = "destroySignal" => FirstPc(op) = "release"
      /\ op \in {"remove", "removeAll"} => FirstPc(op) = "lock"
  BY DEF FirstPc, SlotOps
<1>6. EntriesPoint'
  <2> SUFFICES ASSUME NEW sig \in Signals, NEW i \in DOMAIN mlistSlots[sig]
               PROVE  Passed(sig, i)' <=> Passed(sig, i)
    BY <1>2 DEF EntriesPoint
  <2>1. i \in Nat /\ ~(i < 1)
    BY DEF LInv, TypeOK
  <2>2. QED
    BY <1>0, <1>4, <2>1 DEF Passed, Releasing
<1>7. PointersListed'
  <2>1. \A t \in Slots, sig \in Signals : HalfAttached(t, sig) => HalfAttached(t, sig)'
    BY <1>0 DEF HalfAttached
  <2>2. QED
    BY <1>2, <2>1 DEF PointersListed
<1>8. AddExact'
  <2>1. op = "add" => mpcSignal[s] = None
    BY <1>1 DEF OneOwner, Changes
  <2>2. QED
    BY <1>0, <1>2, <1>4, <2>1 DEF AddExact
<1>9. RemoveExact'
  BY <1>0, <1>1, <1>2, <1>4 DEF RemoveExact, Attached
<1>10. DestroyExact'
  <2>1. ASSUME op = "destroySlot"
        PROVE  /\ sg = None
               /\ \A d \in Calls : call[d].op \in Loops => s \notin Members(mlistSlots[call[d].sig])
               /\ \A d \in Calls : call[d].op = "destroySignal" => call[d].sig # None
    <3>1. sg = None
      BY <1>3, <2>1 DEF OnSignal, ReadOps, Loops
    <3>2. \A d \in Calls : call[d].op = "destroySignal" => call[d].sig # None
      BY CallTyped, ConstantsAssumption DEF OnSignal, Loops
    <3>3. QED
      BY <1>1, <2>1, <3>1, <3>2 DEF Quiet
  <2>2. ASSUME NEW d \in Calls, d # c, call[d].op = "destroySlot"
        PROVE  /\ op \in Loops => call[d].slot \notin Members(mlistSlots[sg])
               /\ op = "destroySignal" => call[d].sig # sg
    BY <1>1, <2>2 DEF Quiet, Busy
  <2>3. QED
    BY <1>0, <1>2, <1>4, <2>1, <2>2 DEF DestroyExact, Loops
<1>11. ListsUnique' /\ PointedLive'
  BY <1>2 DEF ListsUnique, PointedLive
<1>12. QED
  BY <1>6, <1>7, <1>8, <1>9, <1>10, <1>11

LEMMA BeginSlots ==
  ASSUME SInv, "attached" \in ClientRules, "quiet" \in ClientRules,
         NEW c \in Calls, NEW op \in Ops, NEW a \in Signature(op), NEW p,
         Begin(c, op, a[1], a[2], p)
  PROVE  SlotsOK'
<1> DEFINE sg == a[1]
           s == a[2]
<1>0. /\ call[c].pc = "idle" /\ call[c].op = "none" /\ OthersStay(c)
      /\ call'[c].pc = FirstPc(op) /\ call'[c].op = op /\ call'[c].sig = sg
      /\ call'[c].slot = s
      /\ \A d \in Calls : d # c => call'[d] = call[d]
  <2>1. /\ call[c] \in Frame /\ FrameOK(call[c]) /\ call \in [Calls -> Frame]
        /\ call[c].pc = "idle"
    BY FrameFields DEF SInv, LInv, TypeOK, Begin, At
  <2>2. call[c].op = "none"
    BY <2>1 DEF FrameOK, Frame, PcsOf, Ops, OnSlot, OnSignal, Changes, SlotOps, ReadOps, Loops
  <2>3. QED
    BY <2>1, <2>2 DEF Begin, OthersStay
<1>1. ObjectsLive(op, sg, s) /\ OneOwner(op, s)
  BY DEF Begin, Allowed
<1>2. UNCHANGED <<mlistSlots, mMutex, mbActive, hasFunction, slotLife>>
  BY DEF Begin, signalVars, slotVars, fieldVars
<1>3. /\ op \notin OnSignal => sg = None
      /\ op \notin OnSlot => s = None
      /\ op \in OnSlot => s \in Slots /\ s # None
  BY ConstantsAssumption DEF Signature
<1>4. /\ FirstPc(op) \notin {"callback", "released"}
      /\ op = "destroySlot" => FirstPc(op) = "dtor"
  BY DEF FirstPc, SlotOps
<1>5. ~HoldsSlot(c) /\ ~HoldsSlot(c)'
  BY <1>0, <1>4 DEF HoldsSlot
<1>6. SlotOwners'
  <2> SUFFICES ASSUME NEW d \in Calls, NEW e \in Calls, d # e,
                      call'[d].slot = call'[e].slot
               PROVE  /\ ~(call'[d].op \in Changes /\ call'[e].op \in Changes)
                      /\ ~(call'[d].op = "destroySlot" /\ call'[e].op \in OnSlot)
    BY DEF SlotOwners
  <2>1. "destroySlot" \in OnSlot
    BY DEF OnSlot, Changes
  <2>2. CASE d = c
    BY <1>0, <1>1, <1>3, <2>1, <2>2 DEF OneOwner, ObjectsLive
  <2>3. CASE e = c
    BY <1>0, <1>1, <1>3, <2>1, <2>3 DEF OneOwner, ObjectsLive
  <2>4. CASE d # c /\ e # c
    BY <1>0, <2>4 DEF SInv, SlotsOK, SlotOwners
  <2>5. QED
    BY <2>2, <2>3, <2>4
<1>7. FramesExact'
  <2>1. FrameExact(call'[c])
    BY <1>0, <1>3, <1>4 DEF FrameExact
  <2>2. QED
    BY <1>0, <2>1, FramesKept
<1>8. SlotLocksExact' /\ CursorExact' /\ CallbackReady'
  BY <1>0, <1>2, <1>4, <1>5, SlotLocksKept, CursorsKept, ReadyKept DEF CursorOK
<1>9. LivesExact'
  <2> USE DEF SInv, SlotsOK, LivesExact
  <2>1. ListedSlotsExist'
    BY <1>2 DEF ListedSlotsExist
  <2>2. op \in OnSlot => slotLife[s] = "alive"
    BY <1>1, <1>3 DEF ObjectsLive
  <2>3. \A d \in Calls : call'[d].op \in OnSlot =>
          slotLife[call'[d].slot] =
            (IF call'[d].op = "destroySlot" /\ call'[d].pc # "dtor" THEN "noFunction" ELSE "alive")
    BY <1>0, <1>4, <2>2
  <2>4. \A t \in Slots : slotLife[t] = "noFunction" =>
          \E d \in Calls : call'[d].op = "destroySlot" /\ call'[d].slot = t
    BY <1>0
  <2>5. QED
    BY <1>2, <2>1, <2>3, <2>4
<1>10. QED
  BY <1>6, <1>7, <1>8, <1>9, BeginAttaches DEF SlotsOK

-----------------------------------------------------------------------------
(* A new slot takes the place of a dead one, which nothing refers to.      *)
LEMMA NewSlotSlots ==
  ASSUME SInv, NEW s \in Slots, NewSlot(s)
  PROVE  SlotsOK'
<1> USE DEF SInv, SlotsOK, Attachments
<1>0. /\ UNCHANGED <<mlistSlots, signalLife, call>> /\ slotLife[s] = "dead"
  BY DEF NewSlot, signalVars
<1>1. \A t \in Slots :
        /\ slotLife'[t] = (IF t = s THEN "alive" ELSE slotLife[t])
        /\ mpcSignal'[t] = (IF t = s THEN None ELSE mpcSignal[t])
        /\ mbActive'[t] = (IF t = s THEN FALSE ELSE mbActive[t])
        /\ hasFunction'[t] = (IF t = s THEN FALSE ELSE hasFunction[t])
        /\ mMutex'[t] = (IF t = s THEN None ELSE mMutex[t])
  BY DEF NewSlot, LInv, TypeOK
<1>2. \A sg \in Signals : s \notin Members(mlistSlots[sg]) /\ sg # None
  BY <1>0, ConstantsAssumption DEF LivesExact, ListedSlotsExist
<1>3. \A d \in Calls : call[d].op \in OnSlot => call[d].slot \in Slots /\ call[d].slot # s
  BY <1>0, CallTyped DEF LivesExact
<1>4. mMutex[s] = None
  BY <1>0 DEF LivesExact
<1>5. SlotLocksExact'
  <2>1. \A t \in Slots : mMutex'[t] = mMutex[t]
    BY <1>1, <1>4
  <2>2. QED
    BY <1>0, <2>1 DEF SlotLocksExact, HoldsSlot
<1>6. SlotOwners' /\ FramesExact' /\ ListsUnique'
  BY <1>0 DEF SlotOwners, FramesExact, FrameExact, ListsUnique
<1>7. CursorExact'
  BY <1>0 DEF CursorExact, CursorOK, AtEnd, SlotAt
<1>8. EntriesPoint'
  <2>1. \A sg \in Signals : \A i \in DOMAIN mlistSlots[sg] :
          mlistSlots[sg][i] \in Slots /\ mlistSlots[sg][i] # s
    BY <1>2 DEF LInv, TypeOK, Members
  <2>2. \A sg, i : Passed(sg, i)' <=> Passed(sg, i)
    BY <1>0 DEF Passed
  <2>3. QED
    BY <1>0, <1>1, <2>1, <2>2 DEF EntriesPoint
<1>9. PointersListed'
  <2>1. \A t, sg : HalfAttached(t, sg)' <=> HalfAttached(t, sg)
    BY <1>0 DEF HalfAttached
  <2>2. ASSUME NEW t \in Slots, NEW sg \in Signals, mpcSignal'[t] = sg
        PROVE  mpcSignal[t] = sg
    BY <1>1, <1>2, <2>2
  <2>3. QED
    BY <1>0, <2>1, <2>2 DEF PointersListed
<1>10. \A d \in Calls : call[d].op \in OnSlot => mpcSignal'[call[d].slot] = mpcSignal[call[d].slot]
  BY <1>1, <1>3
<1>11. AddExact' /\ RemoveExact'
  BY <1>0, <1>10 DEF AddExact, RemoveExact, OnSlot, Changes
<1>12. DestroyExact'
  BY <1>0, <1>10 DEF DestroyExact, OnSlot, Changes
<1>13. PointedLive'
  BY <1>0, <1>1 DEF PointedLive
<1>14. LivesExact'
  <2>1. ListedSlotsExist'
    <3> SUFFICES ASSUME NEW sg \in Signals, NEW t \in Members(mlistSlots[sg])
                 PROVE  slotLife'[t] # "dead"
      BY <1>0 DEF ListedSlotsExist
    <3>1. t \in Slots
      BY DEF LInv, TypeOK, Members
    <3>2. slotLife[t] # "dead"
      BY DEF LivesExact, ListedSlotsExist
    <3>3. QED
      BY <1>1, <3>1, <3>2
  <2>2. \A d \in Calls : call[d].op \in OnSlot => slotLife'[call[d].slot] = slotLife[call[d].slot]
    BY <1>1, <1>3
  <2>3. \A t \in Slots :
          /\ slotLife'[t] = "dead" => mMutex'[t] = None
          /\ slotLife'[t] = "noFunction" => slotLife[t] = "noFunction"
    BY <1>1 DEF LivesExact
  <2>4. QED
    BY <1>0, <2>1, <2>2, <2>3 DEF LivesExact
<1>15. CallbackReady'
  <2>1. ASSUME NEW d \in Calls, call[d].pc = "callback"
        PROVE  call[d].slot \in Slots /\ call[d].slot # s
    <3>1. HoldsSlot(d) /\ call[d].slot \in Slots
      BY <2>1, CallTyped DEF HoldsSlot
    <3>2. mMutex[call[d].slot] = d /\ d # None
      BY <3>1, ConstantsAssumption DEF SlotLocksExact
    <3>3. QED
      BY <1>4, <3>1, <3>2
  <2>2. QED
    BY <1>0, <1>1, <2>1 DEF CallbackReady
<1>16. QED
  BY <1>5, <1>6, <1>7, <1>8, <1>9, <1>11, <1>12, <1>13, <1>14, <1>15

(* A new signal likewise. *)
LEMMA NewSignalSlots ==
  ASSUME SInv, NEW sg \in Signals, NewSignal(sg)
  PROVE  SlotsOK'
<1> USE DEF SInv, SlotsOK, Attachments
<1>0. /\ UNCHANGED <<mpcSignal, mMutex, mbActive, hasFunction, slotLife, call>>
      /\ signalLife[sg] = "dead"
  BY DEF NewSignal, slotVars, fieldVars
<1>1. \A t \in Signals :
        /\ signalLife'[t] = (IF t = sg THEN "alive" ELSE signalLife[t])
        /\ mlistSlots'[t] = (IF t = sg THEN <<>> ELSE mlistSlots[t])
  BY DEF NewSignal, LInv, TypeOK
<1>2. \A s \in Slots : mpcSignal[s] # sg
  BY <1>0, ConstantsAssumption DEF PointedLive
<1>3. \A d \in Calls : call[d].op \in OnSignal => call[d].sig \in Signals /\ call[d].sig # sg
  BY <1>0, CallTyped DEF LInv, SignalsLive
<1>4. \A t \in Signals : Members(mlistSlots'[t]) \subseteq Members(mlistSlots[t])
  BY <1>1 DEF Members
<1>5. SlotLocksExact' /\ SlotOwners' /\ FramesExact'
  BY <1>0 DEF SlotLocksExact, HoldsSlot, SlotOwners, FramesExact, FrameExact
<1>6. CursorExact'
  <2>1. \A d \in Calls : call[d].op \in Loops => mlistSlots'[call[d].sig] = mlistSlots[call[d].sig]
    BY <1>1, <1>3 DEF OnSignal
  <2>2. QED
    BY <1>0, <2>1 DEF CursorExact, CursorOK, AtEnd, SlotAt
<1>7. ListsUnique'
  BY <1>1 DEF ListsUnique, NoDuplicates
<1>8. EntriesPoint'
  <2>1. \A t, i : Passed(t, i)' <=> Passed(t, i)
    BY <1>0 DEF Passed
  <2>2. QED
    BY <1>0, <1>1, <2>1 DEF EntriesPoint
<1>9. PointersListed'
  <2>1. \A s, t : HalfAttached(s, t)' <=> HalfAttached(s, t)
    BY <1>0 DEF HalfAttached
  <2>2. QED
    BY <1>0, <1>1, <1>2, <2>1 DEF PointersListed
<1>10. AddExact' /\ RemoveExact'
  BY <1>0, <1>3, <1>4 DEF AddExact, RemoveExact, OnSignal
<1>11. DestroyExact'
  <2>1. \A d \in Calls : call[d].op \in Loops => call[d].sig \in Signals
    BY <1>3 DEF OnSignal
  <2>2. \A d \in Calls : call[d].op = "destroySlot" /\ call[d].sig # None =>
          signalLife'[call[d].sig] = "alive"
    BY <1>1, CallTyped DEF DestroyExact
  <2>3. QED
    BY <1>0, <1>4, <2>1, <2>2 DEF DestroyExact
<1>12. PointedLive'
  BY <1>0, <1>1 DEF PointedLive, LInv, TypeOK
<1>13. LivesExact' /\ CallbackReady'
  BY <1>0, <1>4 DEF LivesExact, ListedSlotsExist, CallbackReady
<1>14. QED
  BY <1>5, <1>6, <1>7, <1>8, <1>9, <1>10, <1>11, <1>12, <1>13

-----------------------------------------------------------------------------
LEMMA InitSlots == Init => SInv
<1> SUFFICES ASSUME Init PROVE SInv
  OBVIOUS
<1>1. LInv
  BY InitLocks
<1>2. /\ \A c \in Calls : call[c] = Idle
      /\ \A sg \in Signals : mlistSlots[sg] = <<>> /\ signalLife[sg] = "alive"
      /\ \A s \in Slots : mpcSignal[s] = None /\ mMutex[s] = None /\ slotLife[s] = "alive"
  BY DEF Init
<1>3. \A c \in Calls : /\ call[c].pc = "idle" /\ call[c].op = "none"
                       /\ call[c].sig = None /\ call[c].slot = None
  BY <1>2 DEF Idle
<1>4. "none" \notin OnSlot /\ "none" \notin Changes /\ "none" \notin Loops
  BY DEF OnSlot, Changes, SlotOps, Loops
<1>5. \A c \in Calls : c # None
  BY ConstantsAssumption
<1>6. \A sg \in Signals : sg # None
  BY ConstantsAssumption
<1>7. SlotLocksExact /\ SlotOwners /\ FramesExact /\ CursorExact /\ CallbackReady
  BY <1>2, <1>3, <1>4, <1>5 DEF SlotLocksExact, HoldsSlot, SlotOwners, FramesExact,
     FrameExact, CursorExact, CursorOK, CallbackReady
<1>8. Attachments
  BY <1>2, <1>3, <1>6 DEF Attachments, ListsUnique, NoDuplicates, EntriesPoint,
     PointersListed, AddExact, RemoveExact, DestroyExact, PointedLive, Members
<1>9. LivesExact
  BY <1>2, <1>3, <1>4 DEF LivesExact, ListedSlotsExist, Members
<1>10. QED
  BY <1>1, <1>7, <1>8, <1>9 DEF SInv, SlotsOK

LEMMA NextSlots ==
  ASSUME "attached" \in ClientRules, "quiet" \in ClientRules
  PROVE  SInv /\ [Next]_vars => SInv'
<1> SUFFICES ASSUME SInv, [Next]_vars PROVE SInv'
  OBVIOUS
<1>1. LInv'
  BY NextLocks DEF SInv
<1>2. ASSUME NEW c \in Calls, ThreadCalls(c) PROVE SlotsOK'
  <2>1. PICK op \in ThreadOps : \E a \in Signature(op) : Begin(c, op, a[1], a[2], None)
    BY <1>2 DEF ThreadCalls
  <2>2. QED
    BY <2>1, BeginSlots, ConstantsAssumption
<1>3. ASSUME NEW c \in Calls, CallbackCalls(c) PROVE SlotsOK'
  <2>1. PICK p \in Calls, op \in CallbackOps :
          \E a \in Signature(op) : Begin(c, op, a[1], a[2], p)
    BY <1>3 DEF CallbackCalls
  <2>2. QED
    BY <2>1, BeginSlots, ConstantsAssumption
<1>4. ASSUME NEW c \in Calls, Step(c) PROVE SlotsOK'
  BY <1>4, LockStepSlots, AddStepSlots, RemoveStepSlots, DispatchStepSlots,
     SlotStepSlots, DestroyStepSlots DEF Step
<1>5. CASE UNCHANGED vars
  <2>1. /\ UNCHANGED <<mlistSlots, signalLife, mpcSignal, mbActive, hasFunction, mMutex,
                       slotLife, call>>
    BY <1>5 DEF vars, signalVars, slotVars, fieldVars
  <2>2. \A sg, i : Passed(sg, i)' <=> Passed(sg, i)
    BY <2>1 DEF Passed
  <2>3. \A s, sg : HalfAttached(s, sg)' <=> HalfAttached(s, sg)
    BY <2>1 DEF HalfAttached
  <2>4. Attachments'
    BY <2>1, <2>2, <2>3 DEF SInv, SlotsOK, Attachments, ListsUnique, EntriesPoint,
       PointersListed, AddExact, RemoveExact, DestroyExact, PointedLive
  <2>5. SlotLocksExact' /\ SlotOwners' /\ FramesExact' /\ CallbackReady'
    BY <2>1 DEF SInv, SlotsOK, SlotLocksExact, HoldsSlot, SlotOwners, FramesExact,
       FrameExact, CallbackReady
  <2>6. CursorExact'
    BY <2>1 DEF SInv, SlotsOK, CursorExact, CursorOK, AtEnd, SlotAt
  <2>7. LivesExact'
    BY <2>1 DEF SInv, SlotsOK, LivesExact, ListedSlotsExist
  <2>8. QED
    BY <1>1, <2>4, <2>5, <2>6, <2>7 DEF SInv, SlotsOK
<1>6. QED
  BY <1>1, <1>2, <1>3, <1>4, <1>5, NewSlotSlots, NewSignalSlots DEF Next, SInv

(* For every number of threads, signals and slots, the invariant holds of  *)
(* programs that call remove on the signal that has the slot and destroy   *)
(* no slot under a loop over its list.                                     *)
THEOREM SlotsCorrect ==
  ASSUME "attached" \in ClientRules, "quiet" \in ClientRules
  PROVE  Spec => []SInv
BY InitSlots, NextSlots, PTL DEF Spec

(* The mutexes of signals and of slots are held by exactly the calls that  *)
(* are between locking and unlocking them, and a writer is alone.          *)
THEOREM LocksCorrect ==
  ASSUME "attached" \in ClientRules, "quiet" \in ClientRules
  PROVE  Spec => []LocksExact
<1>1. SInv => LocksExact
  BY DEF SInv, SlotsOK, LInv, LocksExact
<1>2. QED
  BY <1>1, SlotsCorrect, PTL

(* add, remove, removeAll, dispatch and the destructors, interleaved as    *)
(* they may be, keep lists and pointers in agreement wherever nobody is in *)
(* the middle of changing the list.                                        *)
THEOREM ListsAndPointersAgree ==
  ASSUME "attached" \in ClientRules, "quiet" \in ClientRules
  PROVE  Spec => []Coherent
<1>1. ASSUME SInv PROVE Coherent
  <2> SUFFICES ASSUME NEW sg \in Signals, ~Changing(sg)
               PROVE  /\ NoDuplicates(mlistSlots[sg])
                      /\ \A s \in Slots : s \in Members(mlistSlots[sg]) <=> mpcSignal[s] = sg
    BY DEF Coherent
  <2>1. \A i : ~Passed(sg, i)
    BY DEF Changing, Passed
  <2>2. \A s : ~HalfAttached(s, sg)
    BY DEF Changing, HalfAttached
  <2>3. QED
    BY <1>1, <2>1, <2>2 DEF SInv, SlotsOK, Attachments, ListsUnique, EntriesPoint,
       PointersListed, Members
<1>2. QED
  BY <1>1, SlotsCorrect, PTL

(* A slot whose function runs is in the list of the dispatched signal, and *)
(* points to it.                                                           *)
LEMMA CallbackListed ==
  ASSUME SInv, NEW c \in Calls, call[c].pc = "callback"
  PROVE  /\ call[c].op = "dispatch" /\ call[c].sig \in Signals /\ call[c].slot \in Slots
         /\ call[c].slot \in Members(mlistSlots[call[c].sig])
         /\ mpcSignal[call[c].slot] = call[c].sig
<1> USE DEF SInv, SlotsOK, Attachments
<1> DEFINE sg == call[c].sig
<1>1. call[c].op = "dispatch" /\ call[c].op \in Loops /\ sg \in Signals /\ HoldsRead(c)
  BY MethodAt, CallTyped DEF LInv, OnSignal, Loops, HoldsRead, ReadOps
<1>2. call[c].slot \in Slots
  BY CallTyped DEF HoldsSlot
<1>3. ~AtEnd(c) /\ SlotAt(c) = call[c].slot
  BY <1>1 DEF CursorExact, CursorOK
<1>4. call[c].pos \in Nat /\ call[c].pos >= 1 /\ mlistSlots[sg] \in Seq(Slots)
  BY <1>1, FrameFields DEF LInv, TypeOK, Frame, FrameOK
<1>5. call[c].pos \in DOMAIN mlistSlots[sg] /\ mlistSlots[sg][call[c].pos] = call[c].slot
  BY <1>1, <1>3, <1>4 DEF AtEnd, SlotAt
<1>6. ~Passed(sg, call[c].pos)
  <2> SUFFICES ASSUME NEW d \in Calls, call[d].sig = sg, call[d].op \in Releasing,
                      call[d].pc \in {"release", "released"}
               PROVE  FALSE
    BY DEF Passed
  <2>1. OwnsList(d)
    BY DEF OwnsList, HoldsWrite, Releasing
  <2>2. QED
    BY <1>1, <2>1, OwnerUnique DEF Releasing
<1>7. QED
  BY <1>1, <1>2, <1>5, <1>6 DEF EntriesPoint, Members

(* A function runs only for a slot that is whole, active, at the cursor of *)
(* the dispatch that runs it and locked by that dispatch.                  *)
THEOREM CallbacksAreSafe ==
  ASSUME "attached" \in ClientRules, "quiet" \in ClientRules
  PROVE  Spec => []CallbackSafe
<1>1. ASSUME SInv PROVE CallbackSafe
  <2> SUFFICES ASSUME NEW c \in Calls, call[c].pc = "callback"
               PROVE  /\ ~AtEnd(c) /\ SlotAt(c) = call[c].slot
                      /\ mMutex[call[c].slot] = c
                      /\ slotLife[call[c].slot] = "alive"
                      /\ mbActive[call[c].slot] /\ hasFunction[call[c].slot]
    BY DEF CallbackSafe, At
  <2> DEFINE s == call[c].slot
  <2>1. call[c].op = "dispatch" /\ call[c].op \in Loops /\ call[c].sig \in Signals
        /\ s \in Slots /\ HoldsSlot(c)
    BY <1>1, MethodAt, CallTyped DEF SInv, LInv, HoldsSlot, OnSignal, Loops
  <2>2. ~AtEnd(c) /\ SlotAt(c) = s
    BY <1>1, <2>1 DEF SInv, SlotsOK, CursorExact, CursorOK
  <2>3. mMutex[s] = c /\ mbActive[s] /\ hasFunction[s]
    BY <1>1, <2>1 DEF SInv, SlotsOK, SlotLocksExact, CallbackReady
  <2>4. s \in Members(mlistSlots[call[c].sig])
    BY <1>1, CallbackListed
  <2>5. slotLife[s] # "dead"
    BY <1>1, <2>1, <2>4 DEF SInv, SlotsOK, LivesExact, ListedSlotsExist
  <2>6. slotLife[s] # "noFunction"
    <3> SUFFICES ASSUME NEW d \in Calls, call[d].op = "destroySlot", call[d].slot = s
                 PROVE  FALSE
      BY <1>1, <2>1 DEF SInv, SlotsOK, LivesExact
    <3>1. QED
      BY <1>1, <2>1, <2>4 DEF SInv, SlotsOK, Attachments, DestroyExact
  <2>7. slotLife[s] \in {"alive", "noFunction", "dead"}
    BY <1>1, <2>1 DEF SInv, LInv, TypeOK
  <2>8. QED
    BY <2>2, <2>3, <2>5, <2>6, <2>7
<1>2. QED
  BY <1>1, SlotsCorrect, PTL

(* No list names a destroyed slot, no call is about to touch one, and no   *)
(* mutex is destroyed while it is held.                                    *)
THEOREM DeadSlotsUntouched ==
  ASSUME "attached" \in ClientRules, "quiet" \in ClientRules
  PROVE  Spec => []NoDeadSlotTouched
<1>1. ASSUME SInv PROVE NoDeadSlotTouched
  <2>1. ListedSlotsExist /\ \A s \in Slots : slotLife[s] = "dead" => mMutex[s] = None
    BY <1>1 DEF SInv, SlotsOK, LivesExact
  <2>2. ASSUME NEW c \in Calls, call[c].slot # None
        PROVE  slotLife[call[c].slot] # "dead"
    <3>1. CASE call[c].op \in OnSlot
      BY <1>1, <3>1 DEF SInv, SlotsOK, LivesExact
    <3>2. CASE call[c].op \notin OnSlot
      <4>1. HoldsSlot(c) /\ call[c].slot \in Slots
        BY <1>1, <2>2, <3>2, CallTyped DEF SInv, SlotsOK, FramesExact, FrameExact, HoldsSlot
      <4>2. mMutex[call[c].slot] = c /\ c # None
        BY <1>1, <4>1, ConstantsAssumption DEF SInv, SlotsOK, SlotLocksExact
      <4>3. QED
        BY <2>1, <4>1, <4>2
    <3>3. QED
      BY <3>1, <3>2
  <2>3. QED
    BY <2>1, <2>2 DEF NoDeadSlotTouched
<1>2. QED
  BY <1>1, SlotsCorrect, PTL

(* No slot points to a destroyed signal, and no call works on one.         *)
THEOREM DeadSignalsUnnamed ==
  ASSUME "attached" \in ClientRules, "quiet" \in ClientRules
  PROVE  Spec => []NoDeadSignalNamed
<1>1. ASSUME SInv PROVE NoDeadSignalNamed
  <2>1. ASSUME NEW c \in Calls, call[c].sig # None
        PROVE  signalLife[call[c].sig] = "alive"
    <3>1. CASE call[c].op \in OnSignal
      BY <1>1, <3>1 DEF SInv, LInv, SignalsLive
    <3>2. CASE call[c].op \notin OnSignal
      BY <1>1, <2>1, <3>2
      DEF SInv, SlotsOK, FramesExact, FrameExact, Attachments, DestroyExact
    <3>3. QED
      BY <3>1, <3>2
  <2>2. QED
    BY <1>1, <2>1 DEF NoDeadSignalNamed, SInv, SlotsOK, Attachments, PointedLive
<1>2. QED
  BY <1>1, SlotsCorrect, PTL

-----------------------------------------------------------------------------
(* What Connections sees of the calls changes only when a function starts  *)
(* to run or returns.                                                      *)
LEMMA CallsStay ==
  ASSUME \A d \in Calls :
           /\ call'[d].pc = "callback" <=> call[d].pc = "callback"
           /\ call[d].pc = "callback" => /\ call'[d].slot = call[d].slot
                                         /\ call'[d].sig = call[d].sig
  PROVE  UNCHANGED Connection!calls
BY DEF Connection!calls, At

LEMMA OthersRun ==
  ASSUME NEW c \in Calls, OthersStay(c),
         call[c].pc # "callback", call'[c].pc # "callback"
  PROVE  UNCHANGED Connection!calls
BY CallsStay DEF OthersStay

(* The function of a slot runs only while the slot's mutex is held. *)
LEMMA NotRunning ==
  ASSUME SInv, NEW s \in Slots, mMutex[s] = None
  PROVE  ~Connection!Running(s)
<1>1. s # None /\ \A c \in Calls : c # None
  BY ConstantsAssumption
<1>2. ASSUME NEW c \in Calls, call[c].pc = "callback" PROVE call[c].slot # s
  BY <1>1, <1>2 DEF SInv, SlotsOK, SlotLocksExact, HoldsSlot
<1>3. QED
  BY <1>1, <1>2 DEF Connection!Running, At

LEMMA InitConnects == Init => Connection!Init
BY DEF Init, Connection!Init, At, Idle

-----------------------------------------------------------------------------
(* The steps that connections see. *)
LEMMA ConnectMaps ==
  ASSUME SInv, NEW c \in Calls, ConnectSignal(c)
  PROVE  Connection!Connect(call[c].slot, call[c].sig)
<1> USE DEF SInv, SlotsOK, Attachments
<1>1. call[c].pc = "connect" /\ call[c].op = "add"
  BY MethodAt DEF ConnectSignal, At, LInv
<1>2. call[c].slot \in Slots /\ call[c].op \in OnSlot /\ call[c].op \in OnSignal
  BY <1>1, CallTyped DEF OnSlot, OnSignal, Changes
<1>3. OthersStay(c) /\ call'[c].pc = "insert"
  BY GotoEffect DEF ConnectSignal, LInv
<1>4. UNCHANGED Connection!calls
  BY <1>1, <1>3, OthersRun
<1>5. Connection!Usable(call[c].slot)
  BY <1>1, <1>2, NotRunning DEF ConnectSignal, SlotFree, LivesExact, Connection!Usable
<1>6. mpcSignal[call[c].slot] = None /\ signalLife[call[c].sig] = "alive"
  BY <1>1, <1>2 DEF AddExact, LInv, SignalsLive
<1>7. QED
  BY <1>4, <1>5, <1>6
  DEF ConnectSignal, signalVars, Connection!Connect, Connection!ends

LEMMA ReleaseMaps ==
  ASSUME SInv, NEW c \in Calls, ReleaseSignal(c)
  PROVE  Connection!Disconnect(SlotAt(c))
<1>1. UNCHANGED Connection!calls
  BY ReleaseEffect, OthersRun
<1>2. ~Connection!Running(SlotAt(c))
  BY ReleaseEffect, NotRunning DEF ReleaseSignal, SlotFree
<1>3. QED
  BY <1>1, <1>2 DEF ReleaseSignal, signalVars, Connection!Disconnect, Connection!ends

LEMMA SlotStepMaps ==
  ASSUME SInv, NEW c \in Calls, SlotStep(c)
  PROVE  Connection!SetActive(call[c].slot) \/ Connection!Attach(call[c].slot)
<1> USE DEF SInv, SlotsOK
<1>1. call[c].pc = "slot" /\ call[c].op \in SlotOps /\ SlotFree(call[c].slot)
  BY MethodAt DEF SlotStep, SetActive, Attach, At, LInv
<1>2. call[c].slot \in Slots /\ call[c].op \in OnSlot /\ call[c].op # "destroySlot"
  BY <1>1, CallTyped DEF OnSlot, SlotOps
<1>3. OthersStay(c) /\ call'[c].pc = "idle"
  BY ReturnEffect DEF SlotStep, SetActive, Attach, LInv
<1>4. UNCHANGED Connection!calls
  BY <1>1, <1>3, OthersRun
<1>5. Connection!Usable(call[c].slot)
  BY <1>1, <1>2, NotRunning DEF SlotFree, LivesExact, Connection!Usable
<1>6. QED
  BY <1>4, <1>5 DEF SlotStep, SetActive, Attach, signalVars, fieldVars,
     Connection!SetActive, Connection!Attach, Connection!ends

(* A visited slot is whole and in the list that its pointer names: the     *)
(* reader keeps writers out, and nobody destroys a slot of the list.       *)
LEMMA VisitedSlot ==
  ASSUME SInv, NEW c \in Calls, call[c].op = "dispatch", call[c].pc = "iterate", ~AtEnd(c)
  PROVE  /\ SlotAt(c) \in Slots /\ mpcSignal[SlotAt(c)] = call[c].sig
         /\ slotLife[SlotAt(c)] = "alive"
<1> USE DEF SInv, SlotsOK, Attachments
<1> DEFINE s == SlotAt(c)
           sg == call[c].sig
<1>1. /\ sg \in Signals /\ call[c].pos \in DOMAIN mlistSlots[sg]
      /\ s = mlistSlots[sg][call[c].pos] /\ s \in Members(mlistSlots[sg]) /\ s \in Slots
  BY CursorOnSlot DEF Loops
<1>2. HoldsRead(c) /\ call[c].op \in Loops
  BY DEF HoldsRead, ReadOps, Loops
<1>3. ~Passed(sg, call[c].pos)
  <2> SUFFICES ASSUME NEW d \in Calls, call[d].sig = sg, call[d].op \in Releasing,
                      call[d].pc \in {"release", "released"}
               PROVE  FALSE
    BY DEF Passed
  <2>1. OwnsList(d)
    BY DEF OwnsList, HoldsWrite, Releasing
  <2>2. QED
    BY <1>2, <2>1, OwnerUnique DEF Releasing
<1>4. mpcSignal[s] = sg
  BY <1>1, <1>3 DEF EntriesPoint
<1>5. slotLife[s] # "dead"
  BY <1>1 DEF LivesExact, ListedSlotsExist
<1>6. slotLife[s] # "noFunction"
  BY <1>1, <1>2 DEF LivesExact, DestroyExact
<1>7. slotLife[s] \in {"alive", "noFunction", "dead"}
  BY <1>1 DEF LInv, TypeOK
<1>8. QED
  BY <1>1, <1>4, <1>5, <1>6, <1>7

LEMMA VisitMaps ==
  ASSUME SInv, NEW c \in Calls, Visit(c)
  PROVE  \/ Connection!Run(c, call[c].sig, SlotAt(c))
         \/ UNCHANGED Connection!vars
<1> DEFINE s == SlotAt(c)
<1>0. /\ call[c] \in Frame /\ call \in [Calls -> Frame] /\ call[c].pc = "iterate"
      /\ call[c].op = "dispatch"
  BY FrameFields, MethodAt DEF SInv, LInv, TypeOK, Visit, At
<1>1. s \in Slots /\ mpcSignal[s] = call[c].sig /\ slotLife[s] = "alive"
  BY <1>0, VisitedSlot DEF Visit
<1>2. OthersStay(c) /\ call'[c].sig = call[c].sig
  BY <1>0 DEF Visit, OthersStay, Frame
<1>3. UNCHANGED <<mpcSignal, mbActive, hasFunction, Connection!ends>>
  BY DEF Visit, signalVars, fieldVars, Connection!ends
<1>4. CASE mbActive[s] /\ hasFunction[s]
  <2>1. Connection!Usable(s)
    BY <1>1, NotRunning DEF Visit, SlotFree, Connection!Usable
  <2>2. call'[c].pc = "callback" /\ call'[c].slot = s
    BY <1>0, <1>4 DEF Visit, Frame
  <2>3. \A d \in Calls : d # c => call'[d] = call[d]
    BY <1>2 DEF OthersStay
  <2>4. QED
    BY <1>0, <1>1, <1>2, <1>3, <1>4, <2>1, <2>2, <2>3 DEF At, Connection!Run
<1>5. CASE ~(mbActive[s] /\ hasFunction[s])
  <2>1. call'[c].pc = "iterate"
    BY <1>0, <1>5 DEF Visit, Frame
  <2>2. QED
    BY <1>0, <1>2, <1>3, <2>1, OthersRun DEF Connection!vars
<1>6. QED
  BY <1>4, <1>5

LEMMA FinishMaps ==
  ASSUME SInv, NEW c \in Calls, FinishCallback(c)
  PROVE  Connection!Return(c)
<1>0. /\ call[c] \in Frame /\ call \in [Calls -> Frame] /\ call[c].pc = "callback"
      /\ call[c].slot \in Slots /\ call[c].slot # None
  BY FrameFields, CallTyped, ConstantsAssumption
  DEF SInv, LInv, TypeOK, FinishCallback, At, HoldsSlot
<1>1. /\ call'[c].pc = "iterate"
      /\ \A d \in Calls : d # c => call'[d] = call[d]
  BY <1>0 DEF FinishCallback, Frame
<1>2. \E x \in BOOLEAN : mbActive' = [mbActive EXCEPT ![call[c].slot] = @ /\ x]
  <2>1. (~mbFireOnce[call[c].slot]) \in BOOLEAN
    OBVIOUS
  <2>2. QED
    BY <2>1 DEF FinishCallback
<1>3. UNCHANGED <<mpcSignal, hasFunction, Connection!ends>>
  BY DEF FinishCallback, signalVars, Connection!ends
<1>4. QED
  BY <1>0, <1>1, <1>2, <1>3 DEF At, Connection!Return

(* ~ThreadSlot: no dispatch is at the slot, as none walks a list that has  *)
(* it; and when it ends the slot points to no signal, as nobody else       *)
(* changes its attachment.                                                 *)
LEMMA DestroyStepMaps ==
  ASSUME SInv, NEW c \in Calls, DestroyStep(c)
  PROVE  \/ Connection!EndFunction(call[c].slot) \/ Connection!EndSlot(call[c].slot)
         \/ UNCHANGED Connection!vars
<1> USE DEF SInv, SlotsOK, Attachments
<1> DEFINE s == call[c].slot
<1>0. /\ call[c].pc \in {"dtor", "detach", "free"} /\ call[c].op = "destroySlot"
      /\ s \in Slots /\ s # None /\ call[c].op \in OnSlot
  BY MethodAt, CallTyped, ConstantsAssumption
  DEF DestroyStep, DestroyFunction, Detach, Free, At, LInv, OnSlot, Changes
<1>1. UNCHANGED <<mpcSignal, mbActive, hasFunction, signalLife>>
  BY DEF DestroyStep, DestroyFunction, Detach, Free, signalVars, slotVars, fieldVars
<1>2. OthersStay(c) /\ call'[c].pc # "callback"
  <2>1. call \in [Calls -> Frame] /\ call[c] \in Frame
    BY FrameFields DEF LInv, TypeOK
  <2>2. CASE Detach(c)
    BY <2>1, <2>2 DEF Detach, AfterDetach, OthersStay, Frame
  <2>3. QED
    BY <2>2, GotoEffect, ReturnEffect DEF DestroyStep, DestroyFunction, Free, LInv
<1>3. UNCHANGED Connection!calls
  BY <1>0, <1>2, OthersRun
<1>4. ASSUME DestroyFunction(c) PROVE Connection!EndFunction(s)
  <2>1. slotLife[s] = "alive"
    BY <1>0, <1>4 DEF LivesExact, DestroyFunction, At
  <2>2. ~Connection!Running(s)
    <3> SUFFICES ASSUME NEW d \in Calls, call[d].pc = "callback", call[d].slot = s
                 PROVE  FALSE
      BY <1>0 DEF Connection!Running, At
    <3>1. call[d].op \in Loops /\ call[d].sig \in Signals /\ s \in Members(mlistSlots[call[d].sig])
      BY CallbackListed DEF Loops
    <3>2. QED
      BY <1>0, <3>1 DEF DestroyExact
  <2>3. QED
    BY <1>1, <1>3, <1>4, <2>1, <2>2
    DEF DestroyFunction, Connection!EndFunction, Connection!Usable
<1>5. ASSUME Detach(c) PROVE UNCHANGED Connection!vars
  BY <1>1, <1>3, <1>5 DEF Detach, slotVars, Connection!vars, Connection!ends
<1>6. ASSUME Free(c) PROVE Connection!EndSlot(s)
  <2>1. call[c].pc = "free" /\ slotLife[s] = "noFunction"
    BY <1>0, <1>6 DEF LivesExact, Free, At
  <2>2. mpcSignal[s] = None
    <3> SUFFICES ASSUME NEW sg \in Signals, mpcSignal[s] = sg PROVE FALSE
      BY <1>0 DEF LInv, TypeOK
    <3>1. s \notin Members(mlistSlots[sg])
      BY <1>0, <2>1 DEF DestroyExact
    <3>2. PICK d \in Calls : /\ call[d].slot = s /\ call[d].op \in Changes
                             /\ call[d].pc \in {"insert", "release"}
      BY <1>0, <3>1 DEF PointersListed, HalfAttached, Changes
    <3>3. QED
      BY <1>0, <2>1, <3>2 DEF SlotOwners, Changes
  <2>3. QED
    BY <1>1, <1>3, <1>6, <2>1, <2>2 DEF Free, Connection!EndSlot
<1>7. QED
  BY <1>4, <1>5, <1>6 DEF DestroyStep

(* removeAll only empties the list; ~SignalBase ends the signal, which no  *)
(* slot points to and no other call works on.                              *)
LEMMA ClearMaps ==
  ASSUME SInv, NEW c \in Calls, Clear(c)
  PROVE  Connection!EndSignal(call[c].sig) \/ UNCHANGED Connection!vars
<1> USE DEF SInv, SlotsOK
<1> DEFINE sg == call[c].sig
<1>0. /\ call[c] \in Frame /\ call \in [Calls -> Frame] /\ call[c].pc = "release"
      /\ call[c].op \in Releasing /\ sg \in Signals
  BY FrameFields, MethodAt, CallTyped
  DEF LInv, TypeOK, Clear, At, AtEnd, Releasing, Loops, OnSignal
<1>1. OthersStay(c) /\ call'[c].pc # "callback"
  BY <1>0 DEF Clear, Return, Idle, OthersStay, Frame
<1>2. UNCHANGED Connection!calls
  BY <1>0, <1>1, OthersRun
<1>3. CASE call[c].op = "removeAll"
  BY <1>2, <1>3 DEF Clear, slotVars, fieldVars, Connection!vars, Connection!ends
<1>4. CASE call[c].op = "destroySignal"
  <2>1. signalLife[sg] = "alive"
    BY <1>4 DEF LInv, SignalsLive, OnSignal, Loops
  <2>2. \A s \in Slots : mpcSignal[s] # sg
    BY ClearedUnpointed
  <2>3. \A d \in Calls : call[d].pc = "callback" => call[d].sig # sg
    BY <1>0, <1>4, MethodAt DEF LInv, DestroyAlone, OnSignal, Loops
  <2>4. sg # None
    BY <1>0, ConstantsAssumption
  <2>5. signalLife' = [signalLife EXCEPT ![sg] = "dead"]
    BY <1>4 DEF Clear
  <2>6. QED
    BY <1>2, <2>1, <2>2, <2>3, <2>4, <2>5
    DEF Clear, slotVars, fieldVars, At, Connection!EndSignal
<1>5. QED
  BY <1>0, <1>3, <1>4 DEF Releasing

-----------------------------------------------------------------------------
(* The steps that connections do not see. *)
LEMMA UnseenSteps ==
  ASSUME SInv, NEW c \in Calls,
         \/ LockStep(c) \/ CheckAttached(c) \/ Insert(c) \/ Unlink(c)
         \/ UnlockSlot(c) \/ EndDispatch(c)
  PROVE  UNCHANGED Connection!vars
<1>0. call[c] \in Frame /\ call \in [Calls -> Frame] /\ TypeOK
  BY FrameFields DEF SInv, LInv, TypeOK
<1>1. UNCHANGED <<mpcSignal, mbActive, hasFunction, slotLife, signalLife>>
  BY DEF LockStep, AcquireRead, AcquireWrite, Unlock, CheckAttached, Insert, Unlink,
     UnlockSlot, EndDispatch, signalVars, slotVars, fieldVars
<1>2. OthersStay(c) /\ call[c].pc # "callback" /\ call'[c].pc # "callback"
  <2>1. CASE AcquireRead(c) \/ AcquireWrite(c)
    BY <1>0, <2>1 DEF AcquireRead, AcquireWrite, Goto, At, OthersStay, Frame
  <2>2. CASE Unlock(c)
    BY <1>0, <2>2, GotoEffect, ReturnEffect DEF Unlock, At
  <2>3. CASE CheckAttached(c) \/ Insert(c) \/ Unlink(c)
    BY <1>0, <2>3, GotoEffect DEF CheckAttached, Insert, Unlink, At
  <2>4. CASE UnlockSlot(c) \/ EndDispatch(c)
    BY <1>0, <2>4 DEF UnlockSlot, EndDispatch, Goto, At, OthersStay, Frame
  <2>5. QED
    BY <2>1, <2>2, <2>3, <2>4 DEF LockStep
<1>3. QED
  BY <1>1, <1>2, OthersRun DEF Connection!vars, Connection!ends

LEMMA BeginMaps ==
  ASSUME SInv, NEW c \in Calls, NEW op, NEW sg, NEW s, NEW p, Begin(c, op, sg, s, p)
  PROVE  UNCHANGED Connection!vars
<1>1. OthersStay(c) /\ call[c].pc # "callback" /\ call'[c].pc # "callback"
  BY DEF Begin, FirstPc, At, OthersStay, SInv, LInv, TypeOK
<1>2. UNCHANGED <<mpcSignal, mbActive, hasFunction, slotLife, signalLife>>
  BY DEF Begin, signalVars, slotVars, fieldVars
<1>3. QED
  BY <1>1, <1>2, OthersRun DEF Connection!vars, Connection!ends

LEMMA StepMaps ==
  ASSUME SInv, NEW c \in Calls, Step(c)
  PROVE  [Connection!Next]_(Connection!vars)
<1>0. /\ call[c].sig \in Signals \cup {None}
      /\ call[c].op \in OnSignal => call[c].sig \in Signals
      /\ call[c].op \in OnSlot => call[c].slot \in Slots
  BY CallTyped DEF SInv
<1>1. CASE ConnectSignal(c)
  <2>1. call[c].op = "add"
    BY <1>1, MethodAt DEF ConnectSignal, At, SInv, LInv
  <2>2. QED
    BY <1>0, <1>1, <2>1, ConnectMaps DEF Connection!Next, OnSlot, OnSignal, Changes
<1>2. CASE ReleaseSignal(c)
  BY <1>2, ReleaseMaps, ReleaseEffect DEF Connection!Next
<1>3. CASE SlotStep(c)
  <2>1. call[c].op \in SlotOps
    BY <1>3, MethodAt DEF SlotStep, SetActive, Attach, At, SInv, LInv
  <2>2. QED
    BY <1>0, <1>3, <2>1, SlotStepMaps DEF Connection!Next, OnSlot
<1>4. CASE Visit(c)
  <2>1. call[c].op = "dispatch" /\ call[c].pc = "iterate"
    BY <1>4, MethodAt DEF Visit, At, SInv, LInv
  <2>2. call[c].sig \in Signals /\ SlotAt(c) \in Slots
    BY <1>4, <2>1, CursorOnSlot DEF Visit, Loops
  <2>3. Connection!Run(c, call[c].sig, SlotAt(c)) => Connection!Next
    BY <2>2 DEF Connection!Next, Connection!Run
  <2>4. QED
    BY <1>4, <2>3, VisitMaps
<1>5. CASE FinishCallback(c)
  BY <1>5, FinishMaps DEF Connection!Next
<1>6. CASE DestroyStep(c)
  <2>1. call[c].op = "destroySlot"
    BY <1>6, MethodAt
    DEF DestroyStep, DestroyFunction, Detach, Free, At, SInv, LInv
  <2>2. QED
    BY <1>0, <1>6, <2>1, DestroyStepMaps DEF Connection!Next, OnSlot, Changes
<1>7. CASE Clear(c)
  <2>1. call[c].op \in OnSignal
    BY <1>7 DEF Clear, AtEnd, OnSignal
  <2>2. QED
    BY <1>0, <1>7, <2>1, ClearMaps DEF Connection!Next
<1>8. QED
  BY <1>1, <1>2, <1>3, <1>4, <1>5, <1>6, <1>7, UnseenSteps
  DEF Step, AddStep, RemoveStep, DispatchStep

LEMMA NewObjectMaps ==
  /\ \A s \in Slots : NewSlot(s) => Connection!NewSlot(s)
  /\ \A sg \in Signals : NewSignal(sg) => Connection!NewSignal(sg)
BY DEF NewSlot, NewSignal, signalVars, slotVars, fieldVars, At,
   Connection!NewSlot, Connection!NewSignal, Connection!calls

LEMMA NextMaps == SInv /\ [Next]_vars => [Connection!Next]_(Connection!vars)
<1> SUFFICES ASSUME SInv, [Next]_vars PROVE [Connection!Next]_(Connection!vars)
  OBVIOUS
<1>1. ASSUME NEW c \in Calls, ThreadCalls(c) \/ CallbackCalls(c)
      PROVE  UNCHANGED Connection!vars
  BY <1>1, BeginMaps DEF ThreadCalls, CallbackCalls
<1>2. CASE UNCHANGED vars
  BY <1>2 DEF vars, signalVars, slotVars, fieldVars, At,
     Connection!vars, Connection!ends, Connection!calls
<1>3. ASSUME NEW s \in Slots, NewSlot(s) PROVE Connection!Next
  BY <1>3, NewObjectMaps DEF Connection!Next
<1>4. ASSUME NEW sg \in Signals, NewSignal(sg) PROVE Connection!Next
  BY <1>4, NewObjectMaps DEF Connection!Next
<1>5. QED
  BY <1>1, <1>2, <1>3, <1>4, StepMaps DEF Next

(* Whatever the threads and the callbacks do, a slot's function is called  *)
(* only by the signal that has the slot, once at a time, and nothing about *)
(* the slot changes while it runs; the destructors of a slot and a signal  *)
(* return only when neither names the other: the lists, the locks and the  *)
(* half-done methods of ThreadSignal implement Connections.                *)
THEOREM ConnectionsKept ==
  ASSUME "attached" \in ClientRules, "quiet" \in ClientRules
  PROVE  Spec => ImplementsConnections
BY InitSlots, NextSlots, InitConnects, NextMaps, PTL
   DEF Spec, ImplementsConnections, Connection!Spec

-----------------------------------------------------------------------------
(* Who waits for whom.  A call that a callback has made works on a signal  *)
(* that comes after the callback's own, and the callback waits for it.     *)
CallersExact ==
  \A c \in Calls : call[c].caller # None =>
    /\ call[call[c].caller].pc = "callback"
    /\ call[c].op \in OnSignal \ OnSlot
    /\ call[c].sig > call[call[c].caller].sig

(* Where no slot fires once, no dispatch waits for its own read lock. *)
NoneFiresOnce ==
  /\ \A s \in Slots : ~mbFireOnce[s]
  /\ \A c \in Calls : ~call[c].completed /\ call[c].pc # "complete"

WInv == SInv /\ CallersExact /\ NoneFiresOnce

-----------------------------------------------------------------------------
(* A step goes on in its method, with its caller and, but for ~SlotBase    *)
(* that looks up its signal, with its signal, or it returns.               *)
Proceeds(c) ==
  /\ OthersStay(c)
  /\ call[c].pc # "callback" \/ ~Suspended(c)
  /\ \/ call'[c] = Idle
     \/ /\ call'[c].caller = call[c].caller /\ call'[c].op = call[c].op
        /\ call[c].op # "destroySlot" => call'[c].sig = call[c].sig
        /\ call'[c].completed =>
             call[c].completed \/ \E s \in Slots : mbFireOnce[s]
        /\ call'[c].pc = "complete" => call[c].completed

LEMMA LockProceeds ==
  ASSUME TypeOK, NEW c \in Calls, LockStep(c) \/ AddStep(c)
  PROVE  Proceeds(c)
<1>0. call[c] \in Frame /\ call \in [Calls -> Frame]
  BY FrameFields DEF TypeOK
<1>1. CASE AcquireRead(c)
  BY <1>0, <1>1 DEF AcquireRead, Goto, At, Proceeds, OthersStay, Frame
<1>2. CASE AcquireWrite(c)
  BY <1>0, <1>2 DEF AcquireWrite, At, Proceeds, OthersStay, Frame
<1>3. CASE Unlock(c)
  BY <1>0, <1>3 DEF Unlock, Goto, Return, At, Proceeds, OthersStay, Frame
<1>4. CASE AddStep(c)
  BY <1>0, <1>4 DEF AddStep, CheckAttached, ConnectSignal, Insert, Goto, At, Proceeds,
     OthersStay, Frame
<1>5. QED
  BY <1>1, <1>2, <1>3, <1>4 DEF LockStep

LEMMA RemoveProceeds ==
  ASSUME TypeOK, NEW c \in Calls, RemoveStep(c)
  PROVE  Proceeds(c)
<1>0. call[c] \in Frame /\ call \in [Calls -> Frame]
  BY FrameFields DEF TypeOK
<1>1. CASE Unlink(c)
  BY <1>0, <1>1 DEF Unlink, Goto, At, Proceeds, OthersStay, Frame
<1>2. CASE ReleaseSignal(c)
  BY <1>0, <1>2 DEF ReleaseSignal, At, Proceeds, OthersStay, Frame
<1>3. CASE UnlockSlot(c)
  BY <1>0, <1>3 DEF UnlockSlot, Goto, At, Proceeds, OthersStay, Frame
<1>4. CASE Clear(c)
  BY <1>0, <1>4 DEF Clear, Return, At, Proceeds, OthersStay, Frame
<1>5. QED
  BY <1>1, <1>2, <1>3, <1>4 DEF RemoveStep

LEMMA DispatchProceeds ==
  ASSUME TypeOK, NEW c \in Calls, DispatchStep(c)
  PROVE  Proceeds(c)
<1>0. call[c] \in Frame /\ call \in [Calls -> Frame]
  BY FrameFields DEF TypeOK
<1>1. CASE Visit(c)
  BY <1>0, <1>1 DEF Visit, At, Proceeds, OthersStay, Frame
<1>2. CASE FinishCallback(c)
  <2>1. call[c].slot \in Slots
    BY <1>2, FrameFields DEF FinishCallback, At, FrameOK
  <2>2. QED
    BY <1>0, <1>2, <2>1 DEF FinishCallback, At, Proceeds, OthersStay, Frame
<1>3. CASE EndDispatch(c)
  BY <1>0, <1>3 DEF EndDispatch, At, Proceeds, OthersStay, Frame
<1>4. QED
  BY <1>1, <1>2, <1>3 DEF DispatchStep

LEMMA SlotProceeds ==
  ASSUME TypeOK, NEW c \in Calls, SlotStep(c) \/ DestroyStep(c)
  PROVE  Proceeds(c)
<1>0. call[c] \in Frame /\ call \in [Calls -> Frame]
  BY FrameFields DEF TypeOK
<1>1. CASE SlotStep(c)
  BY <1>0, <1>1 DEF SlotStep, SetActive, Attach, Return, At, Proceeds, OthersStay
<1>2. CASE DestroyFunction(c)
  BY <1>0, <1>2 DEF DestroyFunction, Goto, At, Proceeds, OthersStay, Frame
<1>3. CASE Detach(c)
  <2>1. call[c].op = "destroySlot"
    BY <1>3, MethodAt DEF Detach, At
  <2>2. QED
    BY <1>0, <1>3, <2>1 DEF Detach, AfterDetach, At, Proceeds, OthersStay, Frame
<1>4. CASE Free(c)
  BY <1>0, <1>4 DEF Free, Return, At, Proceeds, OthersStay
<1>5. QED
  BY <1>1, <1>2, <1>3, <1>4 DEF DestroyStep

LEMMA StepProceeds ==
  ASSUME TypeOK, NEW c \in Calls, Step(c)
  PROVE  Proceeds(c)
BY LockProceeds, RemoveProceeds, DispatchProceeds, SlotProceeds DEF Step

LEMMA StepCallers ==
  ASSUME WInv, NEW c \in Calls, Proceeds(c)
  PROVE  CallersExact'
<1> USE DEF WInv, SInv, LInv
<1>1. \A d \in Calls : call[d].caller \in Calls \cup {None} /\ call[d].caller # c
  <2> SUFFICES ASSUME NEW d \in Calls
               PROVE  call[d].caller \in Calls \cup {None} /\ call[d].caller # c
    OBVIOUS
  <2>1. call[d].caller \in Calls \cup {None}
    BY FrameFields DEF Frame
  <2>2. call[d].caller # c
    BY ConstantsAssumption DEF Proceeds, Suspended, CallersExact
  <2>3. QED
    BY <2>1, <2>2
<1>2. /\ \A d \in Calls : d # c => call'[d] = call[d]
      /\ \/ call'[c] = Idle
         \/ /\ call'[c].caller = call[c].caller /\ call'[c].op = call[c].op
            /\ call[c].op # "destroySlot" => call'[c].sig = call[c].sig
  BY DEF Proceeds, OthersStay
<1>3. "destroySlot" \in OnSlot
  BY DEF OnSlot, Changes
<1> SUFFICES ASSUME NEW d \in Calls, call'[d].caller # None
             PROVE  /\ call'[call'[d].caller].pc = "callback"
                    /\ call'[d].op \in OnSignal \ OnSlot
                    /\ call'[d].sig > call'[call'[d].caller].sig
  BY DEF CallersExact
<1>4. /\ call'[d].caller = call[d].caller /\ call'[d].op = call[d].op
      /\ call[d].op # "destroySlot" => call'[d].sig = call[d].sig
  BY <1>2 DEF Idle
<1>5. /\ call[call[d].caller].pc = "callback" /\ call[d].op \in OnSignal \ OnSlot
      /\ call[d].sig > call[call[d].caller].sig
  BY <1>4 DEF CallersExact
<1>6. call'[call[d].caller] = call[call[d].caller]
  BY <1>1, <1>2, <1>4
<1>7. QED
  BY <1>3, <1>4, <1>5, <1>6

LEMMA BeginCallers ==
  ASSUME WInv, "ordered" \in ClientRules, NEW c \in Calls, NEW op, NEW sg, NEW s,
         NEW p \in Calls \cup {None}, Begin(c, op, sg, s, p),
         p # None => At(p, "callback")
  PROVE  CallersExact' /\ NoneFiresOnce'
<1> USE DEF WInv, SInv, LInv
<1>1. /\ \A d \in Calls : d # c => call'[d] = call[d]
      /\ call[c].pc = "idle" /\ ~call'[c].completed /\ call'[c].pc # "complete"
      /\ call'[c].op = op /\ call'[c].sig = sg /\ call'[c].caller = p
  BY DEF Begin, At, FirstPc, TypeOK
<1>2. \A d \in Calls : call[d].caller \in Calls \cup {None}
  BY FrameFields DEF Frame
<1>3. p # None => op \in OnSignal \ OnSlot /\ sg > call[p].sig /\ call[p].pc = "callback"
  BY DEF Begin, Allowed, Ordered, At
<1>4. CallersExact'
  <2> SUFFICES ASSUME NEW d \in Calls, call'[d].caller # None
               PROVE  /\ call'[call'[d].caller].pc = "callback"
                      /\ call'[d].op \in OnSignal \ OnSlot
                      /\ call'[d].sig > call'[call'[d].caller].sig
    BY DEF CallersExact
  <2>1. CASE d = c
    BY <1>1, <1>3, <2>1
  <2>2. CASE d # c
    <3>1. /\ call[call[d].caller].pc = "callback" /\ call[d].op \in OnSignal \ OnSlot
          /\ call[d].sig > call[call[d].caller].sig
      BY <1>1, <2>2 DEF CallersExact
    <3>2. call'[call[d].caller] = call[call[d].caller]
      BY <1>1, <1>2, <2>2, <3>1
    <3>3. QED
      BY <1>1, <2>2, <3>1, <3>2
  <2>3. QED
    BY <2>1, <2>2
<1>5. NoneFiresOnce'
  BY <1>1 DEF Begin, slotVars, fieldVars, NoneFiresOnce
<1>6. QED
  BY <1>4, <1>5

LEMMA StepFiresNone ==
  ASSUME WInv, TRUE \notin FireOnceArgs, NEW c \in Calls, Step(c)
  PROVE  NoneFiresOnce'
<1> USE DEF WInv, SInv, LInv, NoneFiresOnce
<1>1. \A s \in Slots : ~mbFireOnce'[s]
  <2>1. CASE ConnectSignal(c)
    <3>1. PICK once \in FireOnceArgs :
            mbFireOnce' = [mbFireOnce EXCEPT ![call[c].slot] = once]
      BY <2>1 DEF ConnectSignal
    <3>2. once = FALSE
      BY ConstantsAssumption
    <3>3. QED
      BY <3>1, <3>2 DEF TypeOK
  <2>2. CASE ReleaseSignal(c)
    BY <2>2 DEF ReleaseSignal, TypeOK
  <2>3. CASE ~ConnectSignal(c) /\ ~ReleaseSignal(c)
    <3>1. mbFireOnce' = mbFireOnce
      BY <2>3 DEF Step, LockStep, AddStep, RemoveStep, DispatchStep, SlotStep, DestroyStep,
         AcquireRead, AcquireWrite, Unlock, CheckAttached, Insert, Unlink, UnlockSlot, Clear,
         Visit, FinishCallback, EndDispatch, SetActive, Attach, DestroyFunction, Detach, Free,
         slotVars, fieldVars
    <3>2. QED
      BY <3>1
  <2>4. QED
    BY <2>1, <2>2, <2>3
<1>2. \A d \in Calls : ~call'[d].completed /\ call'[d].pc # "complete"
  <2>1. Proceeds(c)
    BY StepProceeds
  <2>2. ~call'[c].completed /\ call'[c].pc # "complete"
    BY <2>1 DEF Proceeds, Idle
  <2>3. QED
    BY <2>1, <2>2 DEF Proceeds, OthersStay
<1>3. QED
  BY <1>1, <1>2

LEMMA NextWaits ==
  ASSUME "attached" \in ClientRules, "quiet" \in ClientRules, "ordered" \in ClientRules,
         TRUE \notin FireOnceArgs
  PROVE  WInv /\ [Next]_vars => WInv'
<1> SUFFICES ASSUME WInv, [Next]_vars PROVE CallersExact' /\ NoneFiresOnce'
  BY NextSlots DEF WInv
<1>1. ASSUME NEW c \in Calls, ThreadCalls(c) \/ CallbackCalls(c)
      PROVE  CallersExact' /\ NoneFiresOnce'
  BY <1>1, BeginCallers DEF ThreadCalls, CallbackCalls
<1>2. ASSUME NEW c \in Calls, Step(c) PROVE CallersExact' /\ NoneFiresOnce'
  BY <1>2, StepProceeds, StepCallers, StepFiresNone DEF WInv, SInv, LInv
<1>3. ASSUME UNCHANGED call, \A s \in Slots : mbFireOnce'[s] => mbFireOnce[s]
      PROVE  CallersExact' /\ NoneFiresOnce'
  BY <1>3 DEF WInv, CallersExact, NoneFiresOnce
<1>4. CASE UNCHANGED vars
  BY <1>3, <1>4 DEF vars, slotVars, fieldVars
<1>5. ASSUME NEW s \in Slots, NewSlot(s) PROVE CallersExact' /\ NoneFiresOnce'
  BY <1>3, <1>5 DEF NewSlot, WInv, SInv, LInv, TypeOK
<1>6. ASSUME NEW sg \in Signals, NewSignal(sg) PROVE CallersExact' /\ NoneFiresOnce'
  BY <1>3, <1>6 DEF NewSignal, slotVars, fieldVars
<1>7. QED
  BY <1>1, <1>2, <1>4, <1>5, <1>6 DEF Next

LEMMA InitWaits == Init => WInv
BY InitSlots DEF Init, Idle, WInv, CallersExact, NoneFiresOnce

-----------------------------------------------------------------------------
(* Every wait goes down this rank, so no waits make a circle: a call of a  *)
(* slot is above all, a call on a later signal is below one on an earlier, *)
(* and on the same signal who asks for the list is above who walks it,     *)
(* who walks it above who runs a callback, and that above who changes a    *)
(* slot and meets no callback there.  The others wait for nobody.          *)
Rank(c, n) ==
  LET level == 4 * (n - call[c].sig)
  IN CASE call[c].pc = "slot"     -> 4 * n + 5
       [] call[c].pc = "lock"     -> level + 4
       [] call[c].pc = "iterate"  -> level + 3
       [] call[c].pc = "callback" -> level + 2
       [] call[c].pc \in {"connect", "release"} -> level + 1
       [] OTHER -> 0

LEMMA RankOf ==
  ASSUME TypeOK, NEW n \in Nat, \A sg \in Signals : sg <= n, NEW c \in Calls
  PROVE  /\ call[c].pc = "slot" => Rank(c, n) = 4 * n + 5
         /\ call[c].pc \in {"lock", "iterate", "callback", "connect", "release"} =>
              /\ call[c].sig \in 0..n
              /\ Rank(c, n) = 4 * (n - call[c].sig) +
                   (CASE call[c].pc = "lock" -> 4 [] call[c].pc = "iterate" -> 3
                      [] call[c].pc = "callback" -> 2 [] OTHER -> 1)
         /\ call[c].pc \notin {"slot", "lock", "iterate", "callback", "connect", "release"}
              => Rank(c, n) = 0
<1>1. call[c].pc \in {"lock", "iterate", "callback", "connect", "release"} => call[c].sig \in Signals
  BY FrameFields DEF FrameOK
<1>2. \A sg \in Signals : sg \in 0..n
  BY ConstantsAssumption
<1>3. QED
  BY <1>1, <1>2 DEF Rank

(* Who changes a slot's attachment never waits for a callback: the slot is *)
(* in no list, or in the list that the call has to itself.                 *)
LEMMA ChangersMeetNoCallback ==
  ASSUME SInv, NEW c \in Calls, NEW d \in Calls, call[d].pc = "callback",
         \/ call[c].pc = "connect" /\ call[c].slot = call[d].slot
         \/ call[c].pc = "release" /\ ~AtEnd(c) /\ SlotAt(c) = call[d].slot
  PROVE  FALSE
<1> USE DEF SInv, SlotsOK, Attachments
<1> DEFINE s == call[d].slot
<1>1. /\ call[d].op = "dispatch" /\ call[d].sig \in Signals /\ s \in Slots
      /\ s \in Members(mlistSlots[call[d].sig]) /\ mpcSignal[s] = call[d].sig
      /\ HoldsRead(d)
  BY CallbackListed DEF HoldsRead, ReadOps
<1>2. call[d].sig # None
  BY <1>1, ConstantsAssumption
<1>3. CASE call[c].pc = "connect"
  BY <1>1, <1>2, <1>3, MethodAt DEF LInv, AddExact
<1>4. CASE call[c].pc = "release" /\ call[c].op \in {"remove", "destroySlot"}
  BY <1>1, <1>2, <1>4 DEF SlotAt, Loops, RemoveExact, DestroyExact
<1>5. CASE call[c].pc = "release" /\ call[c].op \in Releasing
  <2>1. /\ call[c].pos \in DOMAIN mlistSlots[call[c].sig] /\ call[c].sig \in Signals
        /\ mlistSlots[call[c].sig][call[c].pos] = s
    BY <1>5, CursorOnSlot DEF Releasing, Loops
  <2>2. OwnsList(c)
    BY <1>5 DEF OwnsList, HoldsWrite, Releasing
  <2>3. ~Passed(call[c].sig, call[c].pos)
    <3>1. call[c].pos \in Nat
      BY CallTyped
    <3>2. QED
      BY <1>5, <2>2, <3>1, PassedByOwner
  <2>4. call[c].sig = call[d].sig
    BY <1>1, <2>1, <2>3 DEF EntriesPoint
  <2>5. QED
    BY <1>1, <1>5, <2>2, <2>4, OwnerUnique
<1>6. QED
  BY <1>3, <1>4, <1>5, MethodAt DEF LInv, Releasing

LEMMA WaitsGoDown ==
  ASSUME WInv, NEW n \in Nat, \A sg \in Signals : sg <= n,
         NEW c \in Calls, NEW d \in Calls, WaitsFor(c, d)
  PROVE  Rank(d, n) < Rank(c, n)
<1> USE DEF WInv, SInv, LInv
<1>0. c # None /\ d # None
  BY ConstantsAssumption
<1>1. CASE call[d].caller = c
  <2>1. /\ call[c].pc = "callback" /\ call[d].op \in OnSignal \ OnSlot
        /\ call[d].sig > call[c].sig
    BY <1>0, <1>1 DEF CallersExact
  <2>2. call[d].pc # "slot"
    BY <2>1, MethodAt DEF OnSlot
  <2>3. QED
    BY <2>1, <2>2, RankOf
<1>2. CASE call[c].pc = "lock" /\ (HoldsRead(d) \/ HoldsWrite(d)) /\ call[d].sig = call[c].sig
  <2>1. call[d].pc # "slot" /\ call[d].pc # "lock"
    BY <1>2 DEF HoldsRead, HoldsWrite
  <2>2. QED
    BY <1>2, <2>1, RankOf
<1>3. CASE NeedsSlot(c) /\ mMutex[NeededSlot(c)] = d
  <2> DEFINE s == NeededSlot(c)
  <2>1. s \in Slots
    <3>1. CASE At(c, "connect") \/ At(c, "slot")
      BY <3>1, MethodAt, CallTyped DEF NeededSlot, At, OnSlot, Changes
    <3>2. CASE ~(At(c, "connect") \/ At(c, "slot"))
      BY <1>3, <3>2, SlotAtTyped DEF NeedsSlot, NeededSlot, At
    <3>3. QED
      BY <3>1, <3>2
  <2>2. call[d].pc \in {"callback", "released"} /\ call[d].slot = s
    BY <1>3, <2>1 DEF SlotsOK, SlotLocksExact, HoldsSlot
  <2>3. call[c].pc \in {"connect", "slot", "release", "iterate"}
    BY <1>3 DEF NeedsSlot, At
  <2>4. CASE call[d].pc = "released" \/ call[c].pc = "slot"
    BY <2>2, <2>3, <2>4, RankOf
  <2>5. CASE call[d].pc = "callback" /\ call[c].pc = "iterate"
    <3>1. call[c].op = "dispatch" /\ ~AtEnd(c) /\ s = SlotAt(c)
      BY <1>3, <2>5, MethodAt DEF NeedsSlot, NeededSlot, At
    <3>2. call[c].sig = call[d].sig
      BY <2>2, <2>5, <3>1, VisitedSlot, CallbackListed
    <3>3. QED
      BY <2>5, <3>2, RankOf
  <2>6. CASE call[d].pc = "callback" /\ call[c].pc \in {"connect", "release"}
    <3>1. \/ call[c].pc = "connect" /\ call[c].slot = call[d].slot
          \/ call[c].pc = "release" /\ ~AtEnd(c) /\ SlotAt(c) = call[d].slot
      BY <1>3, <2>2, <2>6 DEF NeedsSlot, NeededSlot, At
    <3>2. QED
      BY <2>6, <3>1, ChangersMeetNoCallback
  <2>7. QED
    BY <2>2, <2>3, <2>4, <2>5, <2>6
<1>4. ~At(c, "complete")
  BY DEF NoneFiresOnce, At
<1>5. ASSUME call[c].pc = "lock", writer[call[c].sig] = d \/ d \in readers[call[c].sig]
      PROVE  (HoldsRead(d) \/ HoldsWrite(d)) /\ call[d].sig = call[c].sig
  <2>1. call[c].sig \in Signals
    BY <1>5, FrameFields DEF FrameOK
  <2>2. QED
    BY <1>5, <2>1 DEF ListLocksExact
<1>6. QED
  BY <1>1, <1>2, <1>3, <1>4, <1>5 DEF WaitsFor, At

(* Any number of calls on finitely many signals: where callbacks use only  *)
(* signals that come after their own and no slot fires once, no calls wait *)
(* for one another in a circle.                                            *)
THEOREM NoDeadlyEmbrace ==
  ASSUME "attached" \in ClientRules, "quiet" \in ClientRules, "ordered" \in ClientRules,
         TRUE \notin FireOnceArgs, NEW n \in Nat, \A sg \in Signals : sg <= n
  PROVE  Spec => []NoCircularWait
<1>1. ASSUME WInv PROVE NoCircularWait
  <2> SUFFICES ASSUME NEW S \in SUBSET Calls, S # {}
               PROVE  \E c \in S : \A d \in S : ~WaitsFor(c, d)
    BY DEF NoCircularWait
  <2> DEFINE ranks == {Rank(c, n) : c \in S}
  <2>1. \A c \in S : Rank(c, n) \in Nat
    BY <1>1, RankOf DEF WInv, SInv, LInv
  <2>2. ranks \in SUBSET Nat /\ ranks # {}
    <3>1. \A r \in ranks : r \in Nat
      BY <2>1
    <3>2. PICK c \in S : TRUE
      OBVIOUS
    <3>3. Rank(c, n) \in ranks
      OBVIOUS
    <3>4. QED
      BY <3>1, <3>3
  <2>3. PICK r \in ranks : \A q \in ranks : ~(q < r)
    <3> HIDE DEF ranks
    <3>1. QED
      BY <2>2, Smallest
  <2>4. PICK c \in S : r = Rank(c, n)
    BY <2>3
  <2>5. \A d \in S : ~(Rank(d, n) < Rank(c, n))
    BY <2>3, <2>4
  <2>6. QED
    BY <1>1, <2>5, WaitsGoDown
<1>2. QED
  BY <1>1, InitWaits, NextWaits, PTL DEF Spec
=============================================================================
