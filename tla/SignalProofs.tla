----------------------------- MODULE SignalProofs -----------------------------
(***************************************************************************)
(* Machine-checked proofs about Signal, for every set of signals and slots *)
(* and every depth of dispatches inside one another.                       *)
(*                                                                         *)
(* Each dispatch in progress stands at a slot of its list, and has called  *)
(* none of the slots ahead of it that it is to call.  A fire-once slot     *)
(* that runs is alone: no dispatch of its signal was begun above it, so    *)
(* none can call it again, complete it or remove it.                       *)
(***************************************************************************)
EXTENDS Signal, SlotListProofs

(* x stands in the list, and y stands there or behind it. *)
Before(list, x, y) ==
  \E j, k \in DOMAIN list : j <= k /\ list[j] = x /\ list[k] = y

(* What was in the list and still is stands in the old order. *)
Follows(new, old) ==
  \A x, y \in Members(new) \cap Members(old) : Before(old, x, y) => Before(new, x, y)

Calling(f) == f.phase = "call"

Ordered(f, list) ==
  /\ \A s \in f.due : Before(list, f.at, s)
  /\ f.at # None => \A s \in f.fired : Before(list, s, f.at)

(* A dispatch: where its loop stands, and what is ahead of it and behind.  *)
FrameOK(f) ==
  /\ f \in Frame /\ f.lost = FALSE
  /\ Calling(f) => f.at # None
  /\ f.at # None => f.at \in Members(mlistSlots[f.sig])
  /\ f.due \subseteq ToCall(f.sig) /\ f.fired \subseteq Members(mlistSlots[f.sig])
  /\ Ordered(f, mlistSlots[f.sig])
  /\ IF Calling(f) THEN f.at \notin f.due ELSE f.at \notin f.fired

FramesOK == \A i \in DOMAIN stack : FrameOK(stack[i])

(* Only the innermost dispatch is between two calls. *)
Nested == \A i \in DOMAIN stack : i < Len(stack) => Calling(stack[i])

(* A slot that runs has not completed; above one that fires once there is  *)
(* no dispatch of its signal.                                              *)
OnceAlone ==
  \A i \in DOMAIN stack :
    Calling(stack[i]) =>
      /\ ~mbFireOnceCompleted[stack[i].at]
      /\ mbFireOnce[stack[i].at] =>
           \A j \in DOMAIN stack : i < j => stack[j].sig # stack[i].sig

CompletedOff == \A s \in Slots : mbFireOnceCompleted[s] => ~mbActive[s]

Called(s) == \E i \in DOMAIN stack : Calling(stack[i]) /\ stack[i].at = s

ShotsExact ==
  \A s \in Slots : mbFireOnce[s] =>
    /\ shots[s] <= 1
    /\ mpcSignal[s] # None /\ ~mbFireOnceCompleted[s] =>
         (shots[s] = 1 <=> Called(s))

(* A dispatch that is in progress knows of each completed slot. *)
CompletedSeen ==
  \A s \in Slots :
    mbFireOnceCompleted[s] /\ mpcSignal[s] # None =>
      thrown \/ \E i \in DOMAIN stack : /\ stack[i].sig = mpcSignal[s]
                                        /\ stack[i].bHasCompletedSlots

GInv == /\ TypeOK /\ Coherent /\ FramesOK /\ Nested
        /\ OnceAlone /\ CompletedOff /\ ShotsExact /\ CompletedSeen

-----------------------------------------------------------------------------
(* Every slot has priority 0, so a new one is put at the end. *)
LEMMA InsertAppends ==
  ASSUME NEW list \in Seq(Slots), NEW s \in Slots
  PROVE  RawInsertSlot(list, s, miPriority) = Append(list, s)
<1>1. CASE list = <<>>
  BY <1>1 DEF RawInsertSlot
<1>2. CASE list # <<>>
  <2>1. list[Len(list)] \in Slots
    BY <1>2
  <2>2. miPriority[s] <= miPriority[list[Len(list)]]
    BY <2>1 DEF miPriority
  <2>3. QED
    BY <1>2, <2>2 DEF RawInsertSlot
<1>3. QED
  BY <1>1, <1>2

(* What becomes of a list when a slot is added or slots are taken out. *)
LEMMA AppendedList ==
  ASSUME NEW list \in Seq(Slots), NEW s \in Slots
  PROVE  LET new == RawInsertSlot(list, s, miPriority)
         IN /\ new \in Seq(Slots)
            /\ Members(new) = Members(list) \cup {s}
            /\ NoDuplicates(list) /\ s \notin Members(list) => NoDuplicates(new)
            /\ Follows(new, list)
<1> DEFINE new == RawInsertSlot(list, s, miPriority)
<1>1. new = Append(list, s)
  BY InsertAppends
<1>2. miPriority \in [Slots -> Int]
  BY DEF miPriority
<1>3. /\ new \in Seq(Slots)
      /\ Members(new) = Members(list) \cup {s}
      /\ NoDuplicates(list) /\ s \notin Members(list) => NoDuplicates(new)
  BY <1>2, InsertKeepsOrder
<1>4. \A k \in DOMAIN list : k \in DOMAIN new /\ new[k] = list[k]
  BY <1>1
<1>5. Follows(new, list)
  BY <1>4 DEF Follows, Before
<1>6. QED
  BY <1>3, <1>5

LEMMA ShortenedList ==
  ASSUME NEW list \in Seq(Slots), NEW slots
  PROVE  LET new == Without(list, slots)
         IN /\ new \in Seq(Slots)
            /\ Members(new) = Members(list) \ slots
            /\ NoDuplicates(list) => NoDuplicates(new)
            /\ Follows(new, list)
<1> DEFINE new == Without(list, slots)
<1>1. /\ new \in Seq(Slots)
      /\ Members(new) = Members(list) \ slots
      /\ NoDuplicates(list) => NoDuplicates(new)
      /\ \A i, j \in Kept(list, slots) : i <= j =>
           \E k, n \in DOMAIN new : k <= n /\ new[k] = list[i] /\ new[n] = list[j]
  BY WithoutKeepsOthers
<1> HIDE DEF new
<1>2. ASSUME NEW x \in Members(new), NEW y \in Members(new), Before(list, x, y)
      PROVE  Before(new, x, y)
  <2>1. PICK i \in DOMAIN list, j \in DOMAIN list : i <= j /\ list[i] = x /\ list[j] = y
    BY <1>2 DEF Before
  <2>2. i \in Kept(list, slots) /\ j \in Kept(list, slots)
    BY <1>1, <2>1 DEF Kept
  <2>3. QED
    BY <1>1, <2>1, <2>2 DEF Before
<1>3. QED
  BY <1>1, <1>2 DEF Follows, new

(* The place behind a slot of a list without duplicates. *)
LEMMA AfterPlace ==
  ASSUME NEW list \in Seq(Slots), NoDuplicates(list), NEW s \in Members(list)
  PROVE  LET next == After(list, s)
         IN /\ next # None => next \in Members(list)
            /\ \A x : x # s /\ Before(list, s, x) =>
                 next # None /\ Before(list, next, x)
            /\ \A x : next # None /\ Before(list, x, s) =>
                 Before(list, x, next) /\ x # next
<1>1. PICK i \in DOMAIN list : /\ list[i] = s
                               /\ After(list, s) = IF i = Len(list) THEN None
                                                   ELSE list[i + 1]
  BY DEF Members, After
<1>2. \A k \in DOMAIN list : list[k] = s => k = i
  BY <1>1 DEF NoDuplicates
<1>3. DOMAIN list = 1..Len(list) /\ Len(list) \in Nat /\ i \in Nat
  OBVIOUS
<1>4. None \notin Members(list)
  BY SignalAssumption DEF Members
<1>5. CASE i = Len(list)
  <2>1. \A x : Before(list, s, x) => x = s
    BY <1>1, <1>2, <1>3, <1>5 DEF Before
  <2>2. QED
    BY <1>1, <1>5, <2>1
<1>6. CASE i # Len(list)
  <2>1. i + 1 \in DOMAIN list /\ After(list, s) = list[i + 1]
    BY <1>1, <1>3, <1>6
  <2>2. list[i + 1] \in Members(list)
    BY <2>1 DEF Members
  <2>3. ASSUME NEW x, x # s, Before(list, s, x) PROVE Before(list, list[i + 1], x)
    <3>1. PICK j \in DOMAIN list, k \in DOMAIN list : j <= k /\ list[j] = s /\ list[k] = x
      BY <2>3 DEF Before
    <3>2. j = i /\ k # i /\ i + 1 <= k
      BY <1>1, <1>2, <1>3, <2>3, <3>1
    <3>3. QED
      BY <2>1, <3>1, <3>2 DEF Before
  <2>4. ASSUME NEW x, Before(list, x, s)
        PROVE  Before(list, x, list[i + 1]) /\ x # list[i + 1]
    <3>1. PICK j \in DOMAIN list, k \in DOMAIN list : j <= k /\ list[j] = x /\ list[k] = s
      BY <2>4 DEF Before
    <3>2. k = i /\ j <= i + 1 /\ j # i + 1
      BY <1>2, <1>3, <3>1
    <3>3. QED
      BY <2>1, <3>1, <3>2 DEF Before, NoDuplicates
  <2>5. QED
    BY <1>4, <2>1, <2>2, <2>3, <2>4
<1>7. QED
  BY <1>5, <1>6

-----------------------------------------------------------------------------
SameFrame(h, f) == /\ h.sig = f.sig /\ h.at = f.at /\ h.phase = f.phase
                   /\ h.bHasCompletedSlots = f.bHasCompletedSlots

(* What Seen does to one frame. *)
Updated(f, due, fired) == [f EXCEPT !.lost = FALSE, !.due = due, !.fired = fired]

LEMMA FrameSees ==
  ASSUME NEW f \in Frame, NEW d \in SUBSET f.due, NEW e \in SUBSET f.fired
  PROVE  /\ Updated(f, d, e) \in Frame /\ SameFrame(Updated(f, d, e), f)
         /\ Updated(f, d, e).lost = FALSE
         /\ Updated(f, d, e).due = d /\ Updated(f, d, e).fired = e
<1>1. d \in SUBSET Slots /\ e \in SUBSET Slots
  BY DEF Frame
<1>2. Updated(f, d, e) \in Frame
  BY <1>1 DEF Frame, Updated
<1>3. SameFrame(Updated(f, d, e), f)
  BY DEF Frame, SameFrame, Updated
<1>4. /\ Updated(f, d, e).lost = FALSE
      /\ Updated(f, d, e).due = d /\ Updated(f, d, e).fired = e
  BY DEF Frame, Updated
<1>5. QED
  BY <1>2, <1>3, <1>4

(* A change of lists and slots that keeps the order of the lists and the   *)
(* slots where dispatches stand leaves every dispatch in order.            *)
LEMMA SeenKeeps ==
  ASSUME mlistSlots \in [Signals -> Seq(Slots)],
         mlistSlots' \in [Signals -> Seq(Slots)],
         \A g \in Signals : Follows(mlistSlots'[g], mlistSlots[g]),
         NEW frames \in Seq(Frame), \A i \in DOMAIN frames : FrameOK(frames[i]),
         Seen(frames),
         \A i \in DOMAIN frames : frames[i].at # None =>
           frames[i].at \in Members(mlistSlots'[frames[i].sig])
  PROVE  /\ stack' \in Seq(Frame) /\ DOMAIN stack' = DOMAIN frames
         /\ Len(stack') = Len(frames)
         /\ \A i \in DOMAIN frames : SameFrame(stack'[i], frames[i])
         /\ FramesOK'
<1> DEFINE There(f, s) == s \in Members(mlistSlots'[f.sig])
           due(f) == {s \in f.due : There(f, s) /\ mbActive'[s] /\ hasFunction'[s]}
           fired(f) == {s \in f.fired : There(f, s)}
           lost(f) == f.lost \/ (f.at # None /\ ~There(f, f.at))
<1>1. stack' = [i \in DOMAIN frames |->
                  [frames[i] EXCEPT !.lost = lost(frames[i]), !.due = due(frames[i]),
                                    !.fired = fired(frames[i])]]
  BY DEF Seen
<1>2. ASSUME NEW i \in DOMAIN frames
      PROVE  /\ stack'[i] \in Frame /\ SameFrame(stack'[i], frames[i])
             /\ stack'[i].lost = FALSE /\ stack'[i].due = due(frames[i])
             /\ stack'[i].fired = fired(frames[i])
  <2> DEFINE f == frames[i]
             D == due(f)
             F == fired(f)
             L == lost(f)
  <2>1. f \in Frame /\ f.lost = FALSE
    BY <1>2 DEF FrameOK
  <2>2. L = FALSE
    BY <2>1, <1>2
  <2>3. D \in SUBSET f.due /\ F \in SUBSET f.fired
    OBVIOUS
  <2>4. stack'[i] = [f EXCEPT !.lost = L, !.due = D, !.fired = F]
    BY <1>1, <1>2
  <2> HIDE DEF f, D, F, L
  <2>5. stack'[i] = Updated(f, D, F)
    BY <2>2, <2>4 DEF Updated
  <2>6. /\ stack'[i] \in Frame /\ SameFrame(stack'[i], f)
        /\ stack'[i].lost = FALSE /\ stack'[i].due = D /\ stack'[i].fired = F
    <3>1. f \in Frame
      BY <2>1
    <3>2. /\ Updated(f, D, F) \in Frame /\ SameFrame(Updated(f, D, F), f)
          /\ Updated(f, D, F).lost = FALSE
          /\ Updated(f, D, F).due = D /\ Updated(f, D, F).fired = F
      BY <3>1, <2>3, FrameSees
    <3>3. QED
      BY <2>5, <3>2
  <2>7. QED
    BY <2>6 DEF f, D, F
<1>3. /\ stack' \in Seq(Frame) /\ DOMAIN stack' = DOMAIN frames
      /\ Len(stack') = Len(frames)
  <2>1. DOMAIN frames = 1..Len(frames) /\ Len(frames) \in Nat
    OBVIOUS
  <2>2. DOMAIN stack' = DOMAIN frames
    BY <1>1
  <2>3. stack' = [i \in 1..Len(frames) |-> stack'[i]]
    BY <1>1, <2>1
  <2>4. \A i \in 1..Len(frames) : stack'[i] \in Frame
    BY <1>2, <2>1
  <2>5. stack' \in Seq(Frame) /\ Len(stack') = Len(frames)
    BY <2>1, <2>3, <2>4
  <2>6. QED
    BY <2>2, <2>5
<1>4. ASSUME NEW i \in DOMAIN frames PROVE FrameOK(stack[i])'
  <2> DEFINE f == frames[i]
             g == f.sig
             h == stack'[i]
  <2>1. /\ g \in Signals /\ f.due \subseteq ToCall(g)
        /\ f.fired \subseteq Members(mlistSlots[g])
        /\ Ordered(f, mlistSlots[g]) /\ (Calling(f) => f.at # None)
        /\ IF Calling(f) THEN f.at \notin f.due ELSE f.at \notin f.fired
        /\ f.at # None => f.at \in Members(mlistSlots[g])
    BY <1>4 DEF FrameOK, Frame
  <2>2. /\ h \in Frame /\ h.lost = FALSE /\ h.sig = g /\ h.at = f.at
        /\ h.phase = f.phase /\ h.due = due(f) /\ h.fired = fired(f)
    BY <1>2, <1>4 DEF SameFrame
  <2>3. /\ h.due \subseteq ToCall(g)' /\ h.fired \subseteq Members(mlistSlots'[g])
        /\ h.due \subseteq f.due /\ h.fired \subseteq f.fired
        /\ h.due \subseteq Members(mlistSlots'[g])
    BY <2>2 DEF ToCall
  <2>4. f.at # None => f.at \in Members(mlistSlots'[g])
    BY <1>4
  <2> HIDE DEF g, h
  <2>5. ASSUME NEW s \in h.due PROVE Before(mlistSlots'[g], f.at, s)
    <3>1. Before(mlistSlots[g], f.at, s)
      BY <2>1, <2>3, <2>5 DEF Ordered
    <3>2. f.at # None
      <4>1. mlistSlots[g] \in Seq(Slots)
        BY <2>1
      <4>2. QED
        BY <3>1, <4>1, SignalAssumption DEF Before
    <3>3. s \in Members(mlistSlots[g])
      BY <2>1, <2>3, <2>5 DEF ToCall
    <3>4. QED
      BY <2>1, <2>3, <2>4, <2>5, <3>1, <3>2, <3>3 DEF Follows
  <2>6. ASSUME NEW s \in h.fired, f.at # None PROVE Before(mlistSlots'[g], s, f.at)
    <3>1. Before(mlistSlots[g], s, f.at)
      BY <2>1, <2>3, <2>6 DEF Ordered
    <3>2. QED
      BY <2>1, <2>3, <2>4, <2>6, <3>1 DEF Follows
  <2>7. Ordered(h, mlistSlots'[g])
    BY <2>2, <2>5, <2>6 DEF Ordered
  <2>8. IF Calling(h) THEN h.at \notin h.due ELSE h.at \notin h.fired
    BY <2>1, <2>2, <2>3 DEF Calling
  <2>9. QED
    <3>1. /\ h \in Frame /\ h.lost = FALSE /\ h.sig = g
          /\ Calling(h) => h.at # None
          /\ h.at # None => h.at \in Members(mlistSlots'[g])
      BY <2>1, <2>2, <2>4 DEF Calling
    <3>2. QED
      BY <2>3, <2>7, <2>8, <3>1 DEF FrameOK, h
<1>5. QED
  BY <1>2, <1>3, <1>4 DEF FramesOK

-----------------------------------------------------------------------------
FieldsTyped ==
  /\ mlistSlots \in [Signals -> Seq(Slots)]
  /\ mpcSignal \in [Slots -> Signals \cup {None}]
  /\ mbActive \in [Slots -> BOOLEAN]
  /\ mbFireOnce \in [Slots -> BOOLEAN]
  /\ mbFireOnceCompleted \in [Slots -> BOOLEAN]
  /\ hasFunction \in [Slots -> BOOLEAN]
  /\ shots \in [Slots -> Nat]
  /\ thrown \in BOOLEAN

LEMMA TypeParts == TypeOK <=> FieldsTyped /\ stack \in Seq(Frame)
BY DEF TypeOK, FieldsTyped

LEMMA InitEstablishes == Init => GInv
<1> SUFFICES ASSUME Init PROVE GInv
  OBVIOUS
<1>1. stack = <<>> /\ DOMAIN stack = {}
  BY DEF Init
<1>2. TypeOK
  <2>1. stack \in Seq(Frame) /\ mlistSlots \in [Signals -> Seq(Slots)]
    BY DEF Init
  <2>2. /\ mbActive \in [Slots -> BOOLEAN] /\ mbFireOnce \in [Slots -> BOOLEAN]
        /\ mbFireOnceCompleted \in [Slots -> BOOLEAN]
        /\ hasFunction \in [Slots -> BOOLEAN]
        /\ thrown \in BOOLEAN /\ mpcSignal \in [Slots -> Signals \cup {None}]
    BY DEF Init
  <2>3. shots \in [Slots -> Nat]
    BY DEF Init
  <2>4. QED
    BY <2>1, <2>2, <2>3 DEF TypeOK
<1>3. Coherent
  BY SignalAssumption DEF Init, Coherent, NoDuplicates, Members
<1>4. FramesOK /\ Nested /\ OnceAlone
  BY <1>1 DEF FramesOK, Nested, OnceAlone
<1>5. CompletedOff /\ ShotsExact /\ CompletedSeen
  BY DEF Init, CompletedOff, ShotsExact, CompletedSeen
<1>6. QED
  BY <1>2, <1>3, <1>4, <1>5 DEF GInv

(* A slot at which a dispatch stands belongs to the dispatch's signal. *)
LEMMA StandsAtOwn ==
  ASSUME GInv, NEW i \in DOMAIN stack, stack[i].at # None
  PROVE  /\ stack[i].at \in Slots /\ stack[i].sig \in Signals
         /\ stack[i].at \in Members(mlistSlots[stack[i].sig])
         /\ mpcSignal[stack[i].at] = stack[i].sig
<1>1. /\ stack[i] \in Frame
      /\ stack[i].at \in Members(mlistSlots[stack[i].sig])
  BY DEF GInv, FramesOK, FrameOK
<1>2. stack[i].at \in Slots /\ stack[i].sig \in Signals
  BY <1>1 DEF Frame
<1>3. QED
  BY <1>1, <1>2 DEF GInv, Coherent

(* A call of the library by the program, in a callback or outside: what it *)
(* does to a slot, it does to one at which no dispatch stands.             *)
LEMMA ProgramStep ==
  ASSUME GInv, FieldsTyped', Coherent', Seen(stack), UNCHANGED thrown,
         \A g \in Signals : Follows(mlistSlots'[g], mlistSlots[g]),
         \A i \in DOMAIN stack : stack[i].at # None =>
           stack[i].at \in Members(mlistSlots'[stack[i].sig]),
         \A s \in Slots : mbFireOnceCompleted'[s] => ~mbActive'[s],
         \A s \in Slots :
           \/ /\ mpcSignal'[s] = mpcSignal[s] /\ mbFireOnce'[s] = mbFireOnce[s]
              /\ mbFireOnceCompleted'[s] = mbFireOnceCompleted[s]
              /\ shots'[s] = shots[s]
           \/ /\ s \notin Running /\ ~mbFireOnceCompleted'[s]
              /\ mbFireOnce'[s] => shots'[s] = 0
  PROVE  GInv'
<1>1. /\ stack' \in Seq(Frame) /\ DOMAIN stack' = DOMAIN stack
      /\ Len(stack') = Len(stack) /\ FramesOK'
      /\ \A i \in DOMAIN stack : SameFrame(stack'[i], stack[i])
  <2>1. /\ mlistSlots \in [Signals -> Seq(Slots)] /\ stack \in Seq(Frame)
        /\ mlistSlots' \in [Signals -> Seq(Slots)]
    BY DEF GInv, TypeOK, FieldsTyped
  <2>2. \A i \in DOMAIN stack : FrameOK(stack[i])
    BY DEF GInv, FramesOK
  <2>3. QED
    BY <2>1, <2>2, SeenKeeps
<1>2. \A i \in DOMAIN stack :
        /\ Calling(stack'[i]) <=> Calling(stack[i])
        /\ stack'[i].at = stack[i].at /\ stack'[i].sig = stack[i].sig
        /\ stack'[i].bHasCompletedSlots = stack[i].bHasCompletedSlots
  BY <1>1 DEF SameFrame, Calling
<1>3. TypeOK' /\ Nested'
  BY <1>1, <1>2 DEF GInv, Nested, TypeOK, FieldsTyped
<1>4. OnceAlone'
  <2>1. ASSUME NEW i \in DOMAIN stack, Calling(stack[i])
        PROVE  /\ ~mbFireOnceCompleted'[stack[i].at]
               /\ mbFireOnce'[stack[i].at] =>
                    \A j \in DOMAIN stack : i < j => stack[j].sig # stack[i].sig
    <3>1. stack[i].at \in Slots /\ stack[i].at \in Running
      BY <2>1, StandsAtOwn DEF GInv, FramesOK, FrameOK, Running
    <3>2. /\ mbFireOnce'[stack[i].at] = mbFireOnce[stack[i].at]
          /\ mbFireOnceCompleted'[stack[i].at] = mbFireOnceCompleted[stack[i].at]
      BY <3>1
    <3>3. QED
      BY <2>1, <3>2 DEF GInv, OnceAlone
  <2>2. QED
    BY <1>1, <1>2, <2>1 DEF OnceAlone
<1>5. CompletedOff'
  BY DEF CompletedOff
<1>6. \A s \in Slots : Called(s)' <=> Called(s)
  BY <1>1, <1>2 DEF Called
<1>7. \A s \in Slots : Called(s) => s \in Running
  BY DEF Called, Running
<1>8. ShotsExact'
  BY <1>6, <1>7 DEF GInv, ShotsExact
<1>9. CompletedSeen'
  BY <1>1, <1>2 DEF GInv, CompletedSeen
<1>10. QED
  BY <1>1, <1>3, <1>4, <1>5, <1>8, <1>9 DEF GInv

LEMMA ReleaseEffect ==
  ASSUME FieldsTyped, NEW slots, ReleaseSignal(slots)
  PROVE  /\ mpcSignal' \in [Slots -> Signals \cup {None}]
         /\ mbActive' \in [Slots -> BOOLEAN] /\ mbFireOnce' \in [Slots -> BOOLEAN]
         /\ mbFireOnceCompleted' \in [Slots -> BOOLEAN]
         /\ \A s \in slots \cap Slots :
              /\ mpcSignal'[s] = None /\ ~mbActive'[s] /\ ~mbFireOnce'[s]
              /\ ~mbFireOnceCompleted'[s]
         /\ \A s \in Slots \ slots :
              /\ mpcSignal'[s] = mpcSignal[s] /\ mbActive'[s] = mbActive[s]
              /\ mbFireOnce'[s] = mbFireOnce[s]
              /\ mbFireOnceCompleted'[s] = mbFireOnceCompleted[s]
<1>1. mpcSignal' \in [Slots -> Signals \cup {None}]
  BY DEF ReleaseSignal, FieldsTyped
<1>2. /\ mbActive' \in [Slots -> BOOLEAN] /\ mbFireOnce' \in [Slots -> BOOLEAN]
      /\ mbFireOnceCompleted' \in [Slots -> BOOLEAN]
  BY DEF ReleaseSignal
<1>3. \A s \in slots \cap Slots :
        /\ mpcSignal'[s] = None /\ ~mbActive'[s] /\ ~mbFireOnce'[s]
        /\ ~mbFireOnceCompleted'[s]
  BY DEF ReleaseSignal
<1>4. \A s \in Slots \ slots :
        /\ mpcSignal'[s] = mpcSignal[s] /\ mbActive'[s] = mbActive[s]
        /\ mbFireOnce'[s] = mbFireOnce[s]
        /\ mbFireOnceCompleted'[s] = mbFireOnceCompleted[s]
  BY DEF ReleaseSignal, FieldsTyped
<1>5. QED
  BY <1>1, <1>2, <1>3, <1>4

LEMMA NothingFollows == \A list : Follows(<<>>, list)
BY DEF Follows, Members

LEMMA SameFollows == \A list : Follows(list, list)
BY DEF Follows

(* A slot without a signal is in no list, and no dispatch stands at it.    *)
LEMMA FreeSlot ==
  ASSUME GInv, NEW s \in Slots, mpcSignal[s] = None
  PROVE  s \notin Running /\ \A g \in Signals : s \notin Members(mlistSlots[g])
<1>1. s # None /\ None \notin Signals
  BY SignalAssumption
<1>2. \A g \in Signals : s \notin Members(mlistSlots[g])
  BY <1>1 DEF GInv, Coherent
<1>3. s \notin Running
  BY <1>1, StandsAtOwn DEF Running
<1>4. QED
  BY <1>2, <1>3

LEMMA AddSlotPreserves ==
  ASSUME GInv, NEW g \in Signals, NEW s \in Slots, AddSlot(g, s)
  PROVE  GInv'
<1>0. FieldsTyped /\ mlistSlots \in [Signals -> Seq(Slots)]
  BY TypeParts DEF GInv, FieldsTyped
<1>1. PICK fire_once \in FireOnceArgs, active \in BOOLEAN :
        ConnectSignal(s, g, fire_once, miPriority[s], active)
  BY DEF AddSlot
<1>2. /\ mpcSignal[s] = None
      /\ mlistSlots' = [mlistSlots EXCEPT ![g] = RawInsertSlot(@, s, miPriority)]
      /\ shots' = [shots EXCEPT ![s] = 0]
      /\ UNCHANGED <<hasFunction, thrown>> /\ Seen(stack)
  BY DEF AddSlot
<1>3. s \notin Running /\ \A h \in Signals : s \notin Members(mlistSlots[h])
  BY <1>2, FreeSlot
<1> DEFINE new == RawInsertSlot(mlistSlots[g], s, miPriority)
<1>4. /\ new \in Seq(Slots) /\ Members(new) = Members(mlistSlots[g]) \cup {s}
      /\ NoDuplicates(mlistSlots[g]) => NoDuplicates(new)
      /\ Follows(new, mlistSlots[g])
  BY <1>0, <1>3, AppendedList
<1> HIDE DEF new
<1>5. \A h \in Signals : mlistSlots'[h] = IF h = g THEN new ELSE mlistSlots[h]
  BY <1>0, <1>2 DEF new
<1>6. FieldsTyped'
  <2>1. mlistSlots' \in [Signals -> Seq(Slots)]
    BY <1>0, <1>2, <1>4 DEF new
  <2>2. /\ mbActive' \in [Slots -> BOOLEAN] /\ mbFireOnce' \in [Slots -> BOOLEAN]
        /\ mbFireOnceCompleted' \in [Slots -> BOOLEAN]
    BY <1>0, <1>1, SignalAssumption DEF ConnectSignal, FieldsTyped
  <2>3. mpcSignal' \in [Slots -> Signals \cup {None}] /\ shots' \in [Slots -> Nat]
    BY <1>0, <1>1, <1>2 DEF ConnectSignal, FieldsTyped
  <2>4. QED
    BY <1>0, <1>2, <2>1, <2>2, <2>3 DEF FieldsTyped
<1>7. \A t \in Slots :
        IF t = s THEN mpcSignal'[t] = g /\ ~mbFireOnceCompleted'[t] /\ shots'[t] = 0
        ELSE /\ mpcSignal'[t] = mpcSignal[t] /\ mbFireOnce'[t] = mbFireOnce[t]
             /\ mbFireOnceCompleted'[t] = mbFireOnceCompleted[t]
             /\ mbActive'[t] = mbActive[t] /\ shots'[t] = shots[t]
  BY <1>0, <1>1, <1>2 DEF ConnectSignal, FieldsTyped
<1>8. Coherent'
  <2>1. ASSUME NEW h \in Signals
        PROVE  /\ NoDuplicates(mlistSlots'[h])
               /\ Members(mlistSlots'[h]) = {t \in Slots : mpcSignal'[t] = h}
    BY <1>2, <1>4, <1>5, <1>7, SignalAssumption DEF GInv, Coherent
  <2>2. QED
    BY <2>1 DEF Coherent
<1>9. /\ \A h \in Signals : Follows(mlistSlots'[h], mlistSlots[h])
      /\ \A i \in DOMAIN stack : stack[i].at # None =>
           stack[i].at \in Members(mlistSlots'[stack[i].sig])
  BY <1>4, <1>5, SameFollows, StandsAtOwn
<1>10. \A t \in Slots : mbFireOnceCompleted'[t] => ~mbActive'[t]
  BY <1>7 DEF GInv, CompletedOff
<1>11. QED
  BY <1>2, <1>3, <1>6, <1>7, <1>8, <1>9, <1>10, ProgramStep

(* Slots at which no dispatch stands leave a list, with nothing left in    *)
(* their fields, or have no list to leave.                                 *)
LEMMA ReleasePreserves ==
  ASSUME GInv, NEW slots \in SUBSET Slots, slots \cap Running = {},
         ReleaseSignal(slots), UNCHANGED <<shots, thrown>>, Seen(stack),
         hasFunction' \in [Slots -> BOOLEAN],
         mlistSlots' \in [Signals -> Seq(Slots)],
         \A g \in Signals :
           /\ NoDuplicates(mlistSlots'[g])
           /\ Members(mlistSlots'[g]) = Members(mlistSlots[g]) \ slots
           /\ Follows(mlistSlots'[g], mlistSlots[g])
  PROVE  GInv'
<1>0. FieldsTyped
  BY TypeParts DEF GInv
<1>1. /\ mpcSignal' \in [Slots -> Signals \cup {None}]
      /\ mbActive' \in [Slots -> BOOLEAN] /\ mbFireOnce' \in [Slots -> BOOLEAN]
      /\ mbFireOnceCompleted' \in [Slots -> BOOLEAN]
      /\ \A s \in slots :
           /\ mpcSignal'[s] = None /\ ~mbActive'[s] /\ ~mbFireOnce'[s]
           /\ ~mbFireOnceCompleted'[s]
      /\ \A s \in Slots \ slots :
           /\ mpcSignal'[s] = mpcSignal[s] /\ mbActive'[s] = mbActive[s]
           /\ mbFireOnce'[s] = mbFireOnce[s]
           /\ mbFireOnceCompleted'[s] = mbFireOnceCompleted[s]
  BY <1>0, ReleaseEffect
<1>2. FieldsTyped'
  BY <1>0, <1>1 DEF FieldsTyped
<1>3. Coherent'
  <2>1. ASSUME NEW g \in Signals
        PROVE  Members(mlistSlots'[g]) = {s \in Slots : mpcSignal'[s] = g}
    <3>1. Members(mlistSlots'[g]) = {s \in Slots : mpcSignal[s] = g} \ slots
      BY DEF GInv, Coherent
    <3>2. \A s \in Slots : mpcSignal'[s] = g <=> s \notin slots /\ mpcSignal[s] = g
      BY <1>1, SignalAssumption
    <3>3. QED
      BY <3>1, <3>2
  <2>2. QED
    BY <2>1 DEF Coherent
<1>4. \A i \in DOMAIN stack : stack[i].at # None =>
        stack[i].at \in Members(mlistSlots'[stack[i].sig])
  BY StandsAtOwn, SMTT(30) DEF Running
<1>5. \A s \in Slots : mbFireOnceCompleted'[s] => ~mbActive'[s]
  BY <1>1 DEF GInv, CompletedOff
<1>6. \A s \in Slots :
        \/ /\ mpcSignal'[s] = mpcSignal[s] /\ mbFireOnce'[s] = mbFireOnce[s]
           /\ mbFireOnceCompleted'[s] = mbFireOnceCompleted[s]
           /\ shots'[s] = shots[s]
        \/ /\ s \notin Running /\ ~mbFireOnceCompleted'[s]
           /\ mbFireOnce'[s] => shots'[s] = 0
  BY <1>1
<1>7. QED
  BY <1>2, <1>3, <1>4, <1>5, <1>6, ProgramStep

LEMMA RemovePreserves ==
  ASSUME GInv, NEW g \in Signals, NEW s \in Slots, Remove(g, s)
  PROVE  GInv'
<1>0. mlistSlots \in [Signals -> Seq(Slots)] /\ hasFunction \in [Slots -> BOOLEAN]
  BY DEF GInv, TypeOK
<1>1. /\ mpcSignal[s] \in {g, None} /\ s \notin Running
      /\ mlistSlots' = [mlistSlots EXCEPT ![g] = Without(@, {s})]
      /\ ReleaseSignal({s}) /\ UNCHANGED <<hasFunction, shots, thrown>> /\ Seen(stack)
  BY DEF Remove, RawRemoveSlot
<1> DEFINE new == Without(mlistSlots[g], {s})
<1>2. /\ new \in Seq(Slots) /\ Members(new) = Members(mlistSlots[g]) \ {s}
      /\ NoDuplicates(mlistSlots[g]) => NoDuplicates(new)
      /\ Follows(new, mlistSlots[g])
  BY <1>0, ShortenedList
<1> HIDE DEF new
<1>3. /\ \A h \in Signals : mlistSlots'[h] = IF h = g THEN new ELSE mlistSlots[h]
      /\ mlistSlots' \in [Signals -> Seq(Slots)]
  BY <1>0, <1>1, <1>2 DEF new
<1>4. \A h \in Signals : h # g => s \notin Members(mlistSlots[h])
  BY <1>1, SignalAssumption DEF GInv, Coherent
<1>5. \A h \in Signals :
        /\ NoDuplicates(mlistSlots'[h])
        /\ Members(mlistSlots'[h]) = Members(mlistSlots[h]) \ {s}
        /\ Follows(mlistSlots'[h], mlistSlots[h])
  <2>1. TAKE h \in Signals
  <2>2. CASE h = g
    <3>1. mlistSlots'[g] = new /\ NoDuplicates(mlistSlots[g])
      BY <1>3 DEF GInv, Coherent
    <3>2. QED
      BY <1>2, <2>2, <3>1
  <2>3. CASE h # g
    <3>1. mlistSlots'[h] = mlistSlots[h]
      BY <1>3, <2>3
    <3>2. NoDuplicates(mlistSlots[h]) /\ s \notin Members(mlistSlots[h])
      BY <1>4, <2>3 DEF GInv, Coherent
    <3>3. Follows(mlistSlots[h], mlistSlots[h])
      BY <1>0, SameFollows
    <3>4. QED
      BY <3>1, <3>2, <3>3
  <2>4. QED
    BY <2>2, <2>3
<1>6. hasFunction' \in [Slots -> BOOLEAN] /\ {s} \cap Running = {}
  BY <1>0, <1>1
<1>7. QED
  BY <1>1, <1>3, <1>5, <1>6, ReleasePreserves

LEMMA RemoveAllPreserves ==
  ASSUME GInv, NEW g \in Signals, RemoveAll(g)
  PROVE  GInv'
<1> DEFINE slots == Members(mlistSlots[g])
<1>0. mlistSlots \in [Signals -> Seq(Slots)] /\ hasFunction \in [Slots -> BOOLEAN]
  BY DEF GInv, TypeOK
<1>1. /\ slots \cap Running = {} /\ mlistSlots' = [mlistSlots EXCEPT ![g] = <<>>]
      /\ ReleaseSignal(slots) /\ UNCHANGED <<hasFunction, shots, thrown>>
      /\ Seen(stack)
  BY DEF RemoveAll
<1>2. slots = {s \in Slots : mpcSignal[s] = g}
  BY DEF GInv, Coherent
<1> HIDE DEF slots
<1>3. /\ \A h \in Signals : mlistSlots'[h] = IF h = g THEN <<>> ELSE mlistSlots[h]
      /\ mlistSlots' \in [Signals -> Seq(Slots)]
  BY <1>0, <1>1
<1>4. \A h \in Signals : h # g => slots \cap Members(mlistSlots[h]) = {}
  BY <1>2 DEF GInv, Coherent
<1>5. Members(<<>>) = {} /\ NoDuplicates(<<>>)
  BY DEF Members, NoDuplicates
<1>6. ASSUME NEW h \in Signals
      PROVE  /\ NoDuplicates(mlistSlots'[h])
             /\ Members(mlistSlots'[h]) = Members(mlistSlots[h]) \ slots
             /\ Follows(mlistSlots'[h], mlistSlots[h])
  <2>1. CASE h = g
    BY <1>3, <1>5, <2>1, NothingFollows DEF slots
  <2>2. CASE h # g
    BY <1>3, <1>4, <2>2, SameFollows DEF GInv, Coherent
  <2>3. QED
    BY <2>1, <2>2
<1>7. hasFunction' \in [Slots -> BOOLEAN] /\ slots \in SUBSET Slots
  BY <1>0, <1>1, <1>2
<1>8. QED
  BY <1>1, <1>3, <1>6, <1>7, ReleasePreserves

LEMMA RenewPreserves ==
  ASSUME GInv, NEW s \in Slots, Renew(s)
  PROVE  GInv'
<1>0. /\ mlistSlots \in [Signals -> Seq(Slots)] /\ hasFunction \in [Slots -> BOOLEAN]
      /\ mpcSignal[s] \in Signals \cup {None}
  BY DEF GInv, TypeOK
<1> DEFINE g == mpcSignal[s]
           new == Without(mlistSlots[g], {s})
<1>1. /\ s \notin Running
      /\ mlistSlots' = IF g = None THEN mlistSlots
                       ELSE [mlistSlots EXCEPT ![g] = new]
      /\ ReleaseSignal({s}) /\ UNCHANGED <<shots, thrown>> /\ Seen(stack)
  BY <1>0 DEF Renew, RawRemoveSlot
<1>2. g # None => /\ new \in Seq(Slots) /\ Members(new) = Members(mlistSlots[g]) \ {s}
                  /\ NoDuplicates(mlistSlots[g]) => NoDuplicates(new)
                  /\ Follows(new, mlistSlots[g])
  BY <1>0, ShortenedList
<1> HIDE DEF new
<1>3. /\ mlistSlots' \in [Signals -> Seq(Slots)]
      /\ \A h \in Signals : mlistSlots'[h] = IF h = g THEN new ELSE mlistSlots[h]
  BY <1>0, <1>1, <1>2, SignalAssumption
<1>4. \A h \in Signals : h # g => s \notin Members(mlistSlots[h])
  BY DEF GInv, Coherent
<1>5. \A h \in Signals :
        /\ NoDuplicates(mlistSlots'[h])
        /\ Members(mlistSlots'[h]) = Members(mlistSlots[h]) \ {s}
        /\ Follows(mlistSlots'[h], mlistSlots[h])
  BY <1>2, <1>3, <1>4, SameFollows, SignalAssumption DEF GInv, Coherent
<1>6. hasFunction' \in [Slots -> BOOLEAN] /\ {s} \cap Running = {}
  BY <1>0, <1>1 DEF Renew
<1>7. QED
  BY <1>1, <1>3, <1>5, <1>6, ReleasePreserves

(* setActive, and a function for a slot: no list changes.                  *)
LEMMA FieldPreserves ==
  ASSUME GInv, FieldsTyped', Seen(stack),
         UNCHANGED <<mlistSlots, mpcSignal, mbFireOnce, mbFireOnceCompleted,
                     shots, thrown>>,
         \A s \in Slots : mbFireOnceCompleted[s] => ~mbActive'[s]
  PROVE  GInv'
<1>1. Coherent'
  BY DEF GInv, Coherent
<1>2. \A i \in DOMAIN stack : stack[i].at # None =>
        stack[i].at \in Members(mlistSlots'[stack[i].sig])
  BY StandsAtOwn
<1>3. \A g \in Signals : Follows(mlistSlots'[g], mlistSlots[g])
  BY SameFollows
<1>4. QED
  BY <1>1, <1>2, <1>3, ProgramStep

LEMMA SetActivePreserves ==
  ASSUME GInv, NEW s \in Slots, NEW x \in BOOLEAN, SetActive(s, x)
  PROVE  GInv'
<1>1. mbActive \in [Slots -> BOOLEAN] /\ FieldsTyped
  BY TypeParts DEF GInv, FieldsTyped
<1>2. mbActive' = [mbActive EXCEPT ![s] = x] /\ ~(x /\ mbFireOnceCompleted[s])
  BY DEF SetActive
<1>3. mbActive' \in [Slots -> BOOLEAN]
  BY <1>1, <1>2
<1>4. FieldsTyped'
  BY <1>1, <1>3 DEF SetActive, FieldsTyped
<1>5. \A t \in Slots : mbFireOnceCompleted[t] => ~mbActive'[t]
  BY <1>1, <1>2 DEF GInv, CompletedOff
<1>6. QED
  BY <1>4, <1>5, FieldPreserves DEF SetActive

LEMMA AttachPreserves ==
  ASSUME GInv, NEW s \in Slots, Attach(s)
  PROVE  GInv'
<1>1. hasFunction \in [Slots -> BOOLEAN] /\ FieldsTyped
  BY TypeParts DEF GInv, FieldsTyped
<1>2. hasFunction' \in [Slots -> BOOLEAN]
  BY <1>1 DEF Attach
<1>3. FieldsTyped'
  BY <1>1, <1>2 DEF Attach, FieldsTyped
<1>4. QED
  BY <1>3, FieldPreserves DEF Attach, GInv, CompletedOff

-----------------------------------------------------------------------------
(* The innermost dispatch, and the ones that it was begun in. *)
LEMMA TopFacts ==
  ASSUME GInv, stack # <<>>
  PROVE  /\ Len(stack) \in DOMAIN stack /\ DOMAIN stack = 1..Len(stack)
         /\ Len(stack) \in Nat /\ Top = stack[Len(stack)] /\ FrameOK(Top)
         /\ Outer \in Seq(Frame) /\ Len(Outer) = Len(stack) - 1
         /\ DOMAIN Outer = 1..(Len(stack) - 1)
         /\ \A i \in DOMAIN Outer : /\ Outer[i] = stack[i] /\ i \in DOMAIN stack
                                    /\ i < Len(stack) /\ Calling(stack[i])
         /\ \A h \in Frame :
              /\ Append(Outer, h) \in Seq(Frame)
              /\ Len(Append(Outer, h)) = Len(stack)
              /\ DOMAIN Append(Outer, h) = DOMAIN stack
              /\ Append(Outer, h)[Len(stack)] = h
              /\ \A i \in DOMAIN Outer : Append(Outer, h)[i] = stack[i]
<1> DEFINE n == Len(stack)
<1>1. stack \in Seq(Frame) /\ n \in Nat /\ DOMAIN stack = 1..n /\ n # 0
  BY DEF GInv, TypeOK
<1>2. n \in DOMAIN stack /\ n - 1 \in Nat
  BY <1>1
<1>3. FrameOK(Top)
  BY <1>2 DEF GInv, FramesOK, Top
<1>4. /\ Outer = [i \in 1..(n - 1) |-> stack[i]] /\ Outer \in Seq(Frame)
      /\ Len(Outer) = n - 1
  BY <1>1, <1>2 DEF Outer
<1>5. ASSUME NEW i \in 1..(n - 1)
      PROVE  /\ Outer[i] = stack[i] /\ i \in DOMAIN stack
             /\ i < n /\ Calling(stack[i])
  <2>1. i \in DOMAIN stack /\ i < n
    BY <1>1
  <2>2. QED
    BY <1>4, <2>1 DEF GInv, Nested
<1>6. ASSUME NEW h \in Frame
      PROVE  /\ Append(Outer, h) \in Seq(Frame)
             /\ Len(Append(Outer, h)) = n
             /\ DOMAIN Append(Outer, h) = DOMAIN stack
             /\ Append(Outer, h)[n] = h
             /\ \A i \in 1..(n - 1) : Append(Outer, h)[i] = stack[i]
  <2> HIDE DEF n
  <2>1. /\ Append(Outer, h) \in Seq(Frame)
        /\ Len(Append(Outer, h)) = n
    BY <1>1, <1>2, <1>4
  <2>2. DOMAIN Append(Outer, h) = DOMAIN stack
    BY <1>1, <2>1
  <2>3. Append(Outer, h)[n] = h
    BY <1>1, <1>2, <1>4
  <2>4. \A i \in 1..(n - 1) : Append(Outer, h)[i] = stack[i]
    BY <1>1, <1>2, <1>4
  <2>5. QED
    BY <2>1, <2>2, <2>3, <2>4
<1>7. DOMAIN Outer = 1..(n - 1)
  BY <1>4
<1>8. QED
  BY <1>1, <1>2, <1>3, <1>4, <1>5, <1>6, <1>7 DEF Top

LEMMA TopPlaces ==
  ASSUME GInv, stack # <<>>
  PROVE  /\ Len(stack) \in DOMAIN stack /\ DOMAIN Outer \subseteq DOMAIN stack
         /\ \A i \in DOMAIN Outer : i < Len(stack) /\ i # Len(stack)
         /\ \A i \in DOMAIN stack :
              /\ i = Len(stack) \/ i \in DOMAIN Outer
              /\ i < Len(stack) => i \in DOMAIN Outer
              /\ ~(Len(stack) < i)
              /\ Len(stack) <= i => i = Len(stack)
<1>1. /\ Len(stack) \in Nat /\ DOMAIN stack = 1..Len(stack)
      /\ DOMAIN Outer = 1..(Len(stack) - 1) /\ Len(stack) \in DOMAIN stack
  BY TopFacts, Zenon
<1>2. QED
  BY <1>1

(* The call of a fire-once slot is the only one, and no dispatch of the    *)
(* slot's signal is above it.                                              *)
LEMMA OneCall ==
  ASSUME GInv, NEW i \in DOMAIN stack, Calling(stack[i]),
         mbFireOnce[stack[i].at],
         NEW j \in DOMAIN stack, stack[j].at = stack[i].at
  PROVE  j <= i
<1>1. stack[i].at # None
  BY DEF GInv, FramesOK, FrameOK
<1>2. stack[j].sig = stack[i].sig
  BY <1>1, StandsAtOwn
<1>3. ~(i < j)
  BY <1>2 DEF GInv, OnceAlone
<1>4. DOMAIN stack \in SUBSET Nat
  BY DEF GInv, TypeOK
<1>5. QED
  BY <1>3, <1>4

(* As long as lists and slots stay, every dispatch that does not move is   *)
(* as good as before.                                                      *)
LEMMA FrameStays ==
  ASSUME UNCHANGED <<mlistSlots, fields>>, NEW f, FrameOK(f)
  PROVE  FrameOK(f)'
BY DEF FrameOK, ToCall, fields

(* The innermost dispatch is replaced, or goes on: what the others are     *)
(* stays.                                                                  *)
LEMMA TopMoves ==
  ASSUME GInv, stack # <<>>, UNCHANGED <<mlistSlots, fields>>,
         NEW h, FrameOK(h), stack' = Append(Outer, h)
  PROVE  /\ stack' \in Seq(Frame) /\ FramesOK' /\ Nested'
         /\ Len(stack') = Len(stack) /\ DOMAIN stack' = DOMAIN stack
         /\ stack'[Len(stack)] = h
         /\ \A i \in DOMAIN Outer : stack'[i] = stack[i]
<1>1. h \in Frame
  BY DEF FrameOK
<1>2. /\ stack' \in Seq(Frame)
      /\ Len(stack') = Len(stack) /\ DOMAIN stack' = DOMAIN stack
      /\ stack'[Len(stack)] = h
      /\ \A i \in DOMAIN Outer : stack'[i] = stack[i]
  BY <1>1, TopFacts, Zenon
<1>3. \A i \in DOMAIN stack : i = Len(stack) \/ i \in DOMAIN Outer
  BY TopPlaces
<1>4. FramesOK'
  <2>1. ASSUME NEW i \in DOMAIN stack PROVE FrameOK(stack'[i])
    BY <1>2, <1>3 DEF GInv, FramesOK
  <2>2. ASSUME NEW i \in DOMAIN stack PROVE FrameOK(stack[i])'
    BY <2>1, <2>2, Zenon DEF FrameOK, ToCall, fields
  <2>3. QED
    BY <1>2, <2>2 DEF FramesOK
<1>5. Nested'
  <2>1. \A i \in DOMAIN stack : i < Len(stack) => i \in DOMAIN Outer
    BY TopPlaces
  <2>2. \A i \in DOMAIN Outer : Calling(stack[i])
    BY TopFacts, Zenon
  <2>3. QED
    BY <1>2, <2>1, <2>2 DEF Nested
<1>6. QED
  BY <1>2, <1>4, <1>5

(* The invariant's parts about fields alone. *)
LEMMA FieldsStay ==
  ASSUME GInv, UNCHANGED <<mlistSlots, fields>>, thrown' \in BOOLEAN,
         shots' \in [Slots -> Nat], stack' \in Seq(Frame)
  PROVE  TypeOK' /\ Coherent' /\ CompletedOff'
<1>1. TypeOK'
  BY DEF GInv, TypeOK, fields
<1>2. QED
  BY <1>1 DEF GInv, Coherent, CompletedOff, fields

(* The slot is called: for the first time, if it fires once. *)
LEMMA CallPreserves ==
  ASSUME GInv, stack # <<>>, Call, NEW s, s = Top.at
  PROVE  GInv'
<1> DEFINE n == Len(stack)
           h == [Top EXCEPT !.phase = "call", !.due = @ \ {Top.at},
                            !.fired = @ \cup {Top.at}]
<1>0. /\ Top.phase = "visit" /\ s \in ToCall(Top.sig)
      /\ stack' = Append(Outer, h)
      /\ shots' = [shots EXCEPT ![s] = IF mbFireOnce[s] THEN @ + 1 ELSE @]
      /\ UNCHANGED <<mlistSlots, fields, thrown>>
  BY DEF Call
<1>1. FrameOK(Top) /\ Top \in Frame /\ Top = stack[n] /\ n \in DOMAIN stack
  BY TopFacts, Zenon DEF FrameOK
<1>2. /\ s \in Slots /\ s # None /\ s \in Members(mlistSlots[Top.sig])
      /\ mbActive[s] /\ ~mbFireOnceCompleted[s] /\ mpcSignal[s] = Top.sig
      /\ Top.sig \in Signals
  <2>1. s \in Slots \cup {None} /\ Top.sig \in Signals /\ mbActive[s]
        /\ s \in Members(mlistSlots[Top.sig])
    BY <1>0, <1>1 DEF Frame, ToCall
  <2>2. s \in Slots /\ mpcSignal[s] = Top.sig
    BY <2>1 DEF GInv, Coherent
  <2>3. s # None
    BY <2>2, SignalAssumption
  <2>4. QED
    BY <2>1, <2>2, <2>3 DEF GInv, CompletedOff
<1>3. /\ h \in Frame /\ h.sig = Top.sig /\ h.at = s /\ h.lost = FALSE
      /\ h.phase = "call" /\ h.due = Top.due \ {s} /\ h.fired = Top.fired \cup {s}
      /\ h.bHasCompletedSlots = Top.bHasCompletedSlots
  <2>1. Top.lost = FALSE
    BY <1>1 DEF FrameOK
  <2>2. h \in Frame
    BY <1>1, <1>2 DEF Frame
  <2>3. QED
    BY <1>1, <2>1, <2>2 DEF Frame
<1> HIDE DEF h
<1>4. FrameOK(h)
  <2>1. Before(mlistSlots[Top.sig], s, s)
    <3>1. PICK j \in DOMAIN mlistSlots[Top.sig] : mlistSlots[Top.sig][j] = s
      BY <1>2 DEF Members
    <3>2. j <= j
      BY <1>2, <3>1 DEF GInv, TypeOK
    <3>3. QED
      BY <3>1, <3>2 DEF Before
  <2>2. Ordered(h, mlistSlots[h.sig])
    BY <1>1, <1>2, <1>3, <2>1 DEF FrameOK, Ordered
  <2>3. QED
    BY <1>1, <1>2, <1>3, <2>2 DEF FrameOK, Calling
<1>5. /\ stack' \in Seq(Frame) /\ FramesOK' /\ Nested'
      /\ Len(stack') = n /\ DOMAIN stack' = DOMAIN stack /\ stack'[n] = h
      /\ \A i \in DOMAIN Outer : stack'[i] = stack[i]
      /\ \A i \in DOMAIN stack : i = n \/ i \in DOMAIN Outer
  BY <1>0, <1>4, TopMoves, TopPlaces
<1>6. /\ \A i \in DOMAIN stack : /\ stack'[i].sig = stack[i].sig
                                 /\ stack'[i].at = stack[i].at
                                 /\ stack'[i].bHasCompletedSlots
                                      = stack[i].bHasCompletedSlots
      /\ \A i \in DOMAIN stack : Calling(stack'[i]) <=> Calling(stack[i]) \/ i = n
      /\ ~Calling(stack[n])
  BY <1>0, <1>1, <1>3, <1>5 DEF Calling
<1>7. /\ shots' \in [Slots -> Nat]
      /\ shots'[s] = IF mbFireOnce[s] THEN shots[s] + 1 ELSE shots[s]
      /\ \A t \in Slots \ {s} : shots'[t] = shots[t]
  <2>1. shots \in [Slots -> Nat]
    BY DEF GInv, TypeOK
  <2>2. CASE mbFireOnce[s]
    BY <1>0, <1>2, <2>1, <2>2
  <2>3. CASE ~mbFireOnce[s]
    BY <1>0, <1>2, <2>1, <2>3
  <2>4. QED
    BY <2>2, <2>3
<1>8. TypeOK' /\ Coherent' /\ CompletedOff'
  BY <1>0, <1>5, <1>7, FieldsStay DEF GInv, TypeOK
<1>9. OnceAlone'
  <2>1. \A j \in DOMAIN stack : ~(n < j)
    BY TopPlaces
  <2>2. QED
    BY <1>0, <1>1, <1>2, <1>3, <1>5, <1>6, <2>1 DEF GInv, OnceAlone, fields
<1>10. CompletedSeen'
  BY <1>0, <1>5, <1>6 DEF GInv, CompletedSeen, fields
<1>11. /\ \A t \in Slots \ {s} : Called(t)' <=> Called(t)
       /\ Called(s)'
  <2>1. stack[n].at = s
    BY <1>1
  <2>2. Called(s)'
    BY <1>1, <1>5, <1>6, <2>1 DEF Called
  <2>3. ASSUME NEW t \in Slots \ {s} PROVE Called(t)' <=> Called(t)
    BY <1>5, <1>6, <2>1 DEF Called
  <2>4. QED
    BY <2>2, <2>3
<1>12. mbFireOnce[s] => ~Called(s)
  <2>1. ASSUME mbFireOnce[s], NEW i \in DOMAIN stack, Calling(stack[i]), stack[i].at = s
        PROVE  FALSE
    <3>1. n <= i
      BY <1>1, <2>1, OneCall
    <3>2. i = n
      BY <2>1, <3>1, TopPlaces
    <3>3. QED
      BY <1>6, <2>1, <3>2
  <2>2. QED
    BY <2>1 DEF Called
<1>13. ShotsExact'
  <2>1. mbFireOnce[s] => shots[s] = 0 /\ shots'[s] = 1
    <3>1. mbFireOnce[s] => shots[s] <= 1 /\ shots[s] # 1
      BY <1>2, <1>12, SignalAssumption DEF GInv, ShotsExact
    <3>2. QED
      <4>1. shots[s] \in Nat
        BY <1>2 DEF GInv, TypeOK
      <4>2. QED
        BY <1>7, <3>1, <4>1
  <2>2. \A t \in Slots \ {s} : shots'[t] = shots[t]
    BY <1>7
  <2>3. UNCHANGED <<mbFireOnce, mpcSignal, mbFireOnceCompleted>>
    BY <1>0 DEF fields
  <2>4. ASSUME NEW t \in Slots, mbFireOnce[t]
        PROVE  /\ shots'[t] <= 1
               /\ mpcSignal[t] # None /\ ~mbFireOnceCompleted[t] =>
                    (shots'[t] = 1 <=> Called(t)')
    <3>1. CASE t = s
      <4>1. shots'[t] = 1 /\ 1 <= 1
        BY <2>1, <2>4, <3>1
      <4>2. Called(t)'
        BY <1>11, <3>1
      <4>3. QED
        BY <4>1, <4>2
    <3>2. CASE t # s
      BY <1>11, <2>2, <2>4, <3>2 DEF GInv, ShotsExact
    <3>3. QED
      BY <3>1, <3>2
  <2>5. QED
    BY <2>3, <2>4 DEF ShotsExact
<1>14. QED
  BY <1>5, <1>8, <1>9, <1>10, <1>13 DEF GInv

(* Frames that call the same slots of the same signals count the same      *)
(* calls and know the same completed slots.                                *)
LEMMA SameCalls ==
  ASSUME GInv, UNCHANGED <<mlistSlots, fields, shots, thrown>>,
         stack' \in Seq(Frame), FramesOK', Nested', DOMAIN stack \subseteq DOMAIN stack',
         \A i \in DOMAIN stack :
           /\ stack'[i].sig = stack[i].sig
           /\ stack'[i].bHasCompletedSlots = stack[i].bHasCompletedSlots
           /\ Calling(stack'[i]) <=> Calling(stack[i])
           /\ Calling(stack[i]) => stack'[i].at = stack[i].at,
         \A i \in DOMAIN stack' \ DOMAIN stack :
           /\ ~Calling(stack'[i])
           /\ \A j \in DOMAIN stack : Calling(stack[j]) /\ mbFireOnce[stack[j].at] =>
                stack'[i].sig # stack[j].sig
  PROVE  GInv'
<1>1. TypeOK' /\ Coherent' /\ CompletedOff'
  BY FieldsStay DEF GInv, TypeOK
<1>2. UNCHANGED <<mpcSignal, mbFireOnce, mbFireOnceCompleted>>
  BY DEF fields
<1>3. OnceAlone'
  <2>1. ASSUME NEW i \in DOMAIN stack', Calling(stack'[i])
        PROVE  i \in DOMAIN stack /\ Calling(stack[i]) /\ stack'[i].at = stack[i].at
    BY <2>1
  <2>2. ASSUME NEW i \in DOMAIN stack, Calling(stack[i]), mbFireOnce[stack[i].at],
               NEW j \in DOMAIN stack', i < j
        PROVE  stack'[j].sig # stack'[i].sig
    BY <2>2 DEF GInv, OnceAlone
  <2>3. QED
    BY <1>2, <2>1, <2>2 DEF GInv, OnceAlone
<1>4. ASSUME NEW s \in Slots PROVE Called(s)' <=> Called(s)
  BY DEF Called
<1>5. ShotsExact'
  BY <1>2, <1>4 DEF GInv, ShotsExact
<1>6. CompletedSeen'
  BY <1>2 DEF GInv, CompletedSeen
<1>7. QED
  BY <1>1, <1>3, <1>5, <1>6 DEF GInv

(* The loop passes by a slot that is not to be called. *)
LEMMA SkipPreserves ==
  ASSUME GInv, stack # <<>>, Skip
  PROVE  GInv'
<1> DEFINE list == mlistSlots[Top.sig]
           next == After(list, Top.at)
           h == [Top EXCEPT !.at = next]
           n == Len(stack)
<1>0. /\ Top.phase = "visit" /\ Top.at \notin ToCall(Top.sig) \cup {None}
      /\ stack' = Append(Outer, h)
      /\ UNCHANGED <<mlistSlots, fields, shots, thrown>>
  BY DEF Skip
<1>1. FrameOK(Top) /\ Top \in Frame /\ Top = stack[n] /\ n \in DOMAIN stack
  BY TopFacts, Zenon DEF FrameOK
<1>2. /\ list \in Seq(Slots) /\ NoDuplicates(list) /\ Top.at \in Members(list)
      /\ Top.sig \in Signals
  BY <1>0, <1>1 DEF FrameOK, Frame, GInv, TypeOK, Coherent
<1>3. /\ next # None => next \in Members(list)
      /\ \A x : x # Top.at /\ Before(list, Top.at, x) =>
           next # None /\ Before(list, next, x)
      /\ \A x : next # None /\ Before(list, x, Top.at) =>
           Before(list, x, next) /\ x # next
  BY <1>2, AfterPlace
<1>4. next \in Slots \cup {None} /\ None \notin Members(list)
  BY <1>2, <1>3, SignalAssumption DEF Members
<1> HIDE DEF next
<1>5. /\ h \in Frame /\ h.sig = Top.sig /\ h.at = next /\ h.lost = Top.lost
      /\ h.phase = "visit" /\ h.due = Top.due /\ h.fired = Top.fired
      /\ h.bHasCompletedSlots = Top.bHasCompletedSlots
  <2>1. h \in Frame
    BY <1>1, <1>4 DEF Frame
  <2>2. QED
    BY <1>0, <1>1, <2>1 DEF Frame
<1> HIDE DEF h
<1>6. FrameOK(h)
  <2>1. Ordered(h, list)
    <3>1. \A x \in Top.due : x # Top.at /\ Before(list, Top.at, x)
      BY <1>0, <1>1 DEF FrameOK, Ordered
    <3>2. \A x \in Top.fired : Before(list, x, Top.at)
      BY <1>0, <1>1 DEF FrameOK, Ordered
    <3>3. QED
      BY <1>3, <1>5, <3>1, <3>2 DEF Ordered
  <2>2. h.at \notin h.fired
    <3>1. \A x \in Top.fired : Before(list, x, Top.at) /\ x # None
      BY <1>0, <1>1, <1>4 DEF FrameOK, Ordered
    <3>2. QED
      BY <1>3, <1>5, <3>1
  <2>3. QED
    BY <1>1, <1>3, <1>5, <2>1, <2>2 DEF FrameOK, Calling
<1>7. /\ stack' \in Seq(Frame) /\ FramesOK' /\ Nested'
      /\ Len(stack') = n /\ DOMAIN stack' = DOMAIN stack /\ stack'[n] = h
      /\ \A i \in DOMAIN Outer : stack'[i] = stack[i]
      /\ \A i \in DOMAIN stack : i = n \/ i \in DOMAIN Outer
  BY <1>0, <1>6, TopMoves, TopPlaces
<1>8. \A i \in DOMAIN stack :
        /\ stack'[i].sig = stack[i].sig
        /\ stack'[i].bHasCompletedSlots = stack[i].bHasCompletedSlots
        /\ Calling(stack'[i]) <=> Calling(stack[i])
        /\ Calling(stack[i]) => stack'[i].at = stack[i].at
  BY <1>0, <1>1, <1>5, <1>7 DEF Calling
<1>9. QED
  BY <1>0, <1>7, <1>8, SameCalls

(* A dispatch begins, in a callback or outside: not of a signal one of     *)
(* whose fire-once slots runs.                                             *)
LEMMA DispatchPreserves ==
  ASSUME GInv, Program, NEW g \in Signals, Dispatch(g)
  PROVE  GInv'
<1> DEFINE list == mlistSlots[g]
           h == [sig |-> g, at |-> First(list), lost |-> FALSE,
                 phase |-> "visit", bHasCompletedSlots |-> FALSE,
                 due |-> ToCall(g), fired |-> {}]
           n == Len(stack)
<1>0. /\ \A s \in Running : ~(mpcSignal[s] = g /\ mbFireOnce[s])
      /\ stack' = Append(stack, h)
      /\ UNCHANGED <<mlistSlots, fields, shots, thrown>>
  BY DEF Dispatch
<1>1. /\ list \in Seq(Slots) /\ stack \in Seq(Frame) /\ n \in Nat
      /\ DOMAIN stack = 1..n
  BY DEF GInv, TypeOK
<1>2. /\ First(list) # None => First(list) \in Members(list)
      /\ First(list) \in Slots \cup {None}
      /\ \A s \in Members(list) : Before(list, First(list), s)
  <2>1. CASE list = <<>>
    BY <2>1 DEF First, Members
  <2>2. CASE list # <<>>
    <3>1. /\ 1 \in DOMAIN list /\ First(list) = list[1]
          /\ \A k \in DOMAIN list : 1 <= k
      BY <1>1, <2>2 DEF First
    <3>2. First(list) \in Members(list) /\ First(list) \in Slots
      BY <1>1, <3>1 DEF Members
    <3>3. \A s \in Members(list) : Before(list, First(list), s)
      BY <3>1 DEF Members, Before
    <3>4. QED
      BY <3>2, <3>3
  <2>3. QED
    BY <2>1, <2>2
<1>3. ToCall(g) \subseteq Members(list) /\ Members(list) \subseteq Slots
  BY <1>1 DEF ToCall, Members
<1>4. h \in Frame
  BY <1>2, <1>3 DEF Frame
<1>5. FrameOK(h)
  BY <1>2, <1>3, <1>4 DEF FrameOK, Ordered, Calling
<1>6. h.sig = g /\ ~Calling(h)
  BY DEF Calling
<1> HIDE DEF h
<1>7. /\ stack' \in Seq(Frame) /\ Len(stack') = n + 1
      /\ DOMAIN stack' = DOMAIN stack \cup {n + 1} /\ n + 1 \notin DOMAIN stack
      /\ stack'[n + 1] = h /\ \A i \in DOMAIN stack : stack'[i] = stack[i]
  BY <1>0, <1>1, <1>4
<1>8. FramesOK'
  <2>1. ASSUME NEW i \in DOMAIN stack' PROVE FrameOK(stack'[i])
    BY <1>5, <1>7 DEF GInv, FramesOK
  <2>2. ASSUME NEW i \in DOMAIN stack' PROVE FrameOK(stack[i])'
    BY <1>0, <2>1 DEF FrameOK, ToCall, fields
  <2>3. QED
    BY <2>2 DEF FramesOK
<1>9. \A i \in DOMAIN stack : Calling(stack[i])
  <2>1. TAKE i \in DOMAIN stack
  <2>2. stack # <<>> /\ (i < n \/ i = n)
    BY <1>1
  <2>3. QED
    BY <2>2 DEF GInv, Nested, Program, Top, Calling
<1>10. Nested'
  <2>1. \A i \in DOMAIN stack' : i < n + 1 => i \in DOMAIN stack
    BY <1>1, <1>7
  <2>2. QED
    BY <1>7, <1>9, <2>1 DEF Nested
<1>11. \A j \in DOMAIN stack : mbFireOnce[stack[j].at] => g # stack[j].sig
  <2>1. TAKE j \in DOMAIN stack
  <2>2. stack[j].at # None
    BY <1>9 DEF GInv, FramesOK, FrameOK
  <2>3. stack[j].at \in Running /\ mpcSignal[stack[j].at] = stack[j].sig
    BY <2>2, StandsAtOwn DEF Running
  <2>4. QED
    BY <1>0, <2>3
<1>12. QED
  BY <1>0, <1>6, <1>7, <1>8, <1>10, <1>11, SameCalls

(* The dispatches below one that leaves: they all run a slot, and none of  *)
(* them the slot that a fire-once call was for.                            *)
LEMMA Below ==
  ASSUME GInv, stack # <<>>
  PROVE  \A i \in DOMAIN Outer :
           /\ i \in DOMAIN stack /\ Outer[i] = stack[i] /\ Calling(stack[i])
           /\ stack[i].at # None /\ stack[i].at \in Slots
           /\ ~mbFireOnceCompleted[stack[i].at]
           /\ Calling(Top) /\ mbFireOnce[Top.at] => stack[i].at # Top.at
<1>1. TAKE i \in DOMAIN Outer
<1>2. i \in DOMAIN stack /\ Outer[i] = stack[i] /\ Calling(stack[i]) /\ i < Len(stack)
  BY TopFacts, Zenon
<1>3. stack[i].at # None
  BY <1>2 DEF GInv, FramesOK, FrameOK
<1>4. stack[i].at \in Slots /\ ~mbFireOnceCompleted[stack[i].at]
  BY <1>2, <1>3, StandsAtOwn DEF GInv, OnceAlone
<1>5. ASSUME Calling(Top), mbFireOnce[Top.at], stack[i].at = Top.at PROVE FALSE
  <2>1. Len(stack) \in DOMAIN stack /\ Top = stack[Len(stack)]
    BY TopFacts, Zenon
  <2>2. Len(stack) <= i
    BY <1>2, <1>5, <2>1, OneCall
  <2>3. QED
    BY <1>2, <2>2, TopPlaces
<1>6. QED
  BY <1>2, <1>3, <1>4, <1>5

(* The function throws: the dispatch is gone, and the call is taken back.  *)
LEMMA ThrowPreserves ==
  ASSUME GInv, stack # <<>>, Throw, NEW s, s = Top.at
  PROVE  GInv'
<1> DEFINE n == Len(stack)
<1>0. /\ Top.phase = "call" /\ stack' = Outer /\ thrown' = TRUE
      /\ shots' = [shots EXCEPT ![s] = IF mbFireOnce[s] THEN @ - 1 ELSE @]
      /\ UNCHANGED <<mlistSlots, fields>>
  BY DEF Throw
<1>1. Top = stack[n] /\ n \in DOMAIN stack /\ Calling(stack[n]) /\ stack[n].at = s
  BY <1>0, TopFacts, Zenon DEF Calling
<1>2. s \in Slots /\ s # None /\ mpcSignal[s] # None /\ ~mbFireOnceCompleted[s]
  <2>1. stack[n].at # None
    BY <1>1 DEF GInv, FramesOK, FrameOK
  <2>2. QED
    BY <1>1, <2>1, StandsAtOwn, SignalAssumption DEF GInv, OnceAlone
<1>3. /\ stack' \in Seq(Frame) /\ DOMAIN stack' \subseteq DOMAIN stack
      /\ DOMAIN stack' = DOMAIN Outer
      /\ \A i \in DOMAIN Outer : stack'[i] = stack[i] /\ Calling(stack[i])
  BY <1>0, TopFacts, Zenon
<1>4. UNCHANGED <<mpcSignal, mbFireOnce, mbFireOnceCompleted>>
  BY <1>0 DEF fields
<1>5. FramesOK' /\ Nested'
  <2>1. ASSUME NEW i \in DOMAIN Outer PROVE FrameOK(stack'[i])
    BY <1>3 DEF GInv, FramesOK
  <2>2. ASSUME NEW i \in DOMAIN Outer PROVE FrameOK(stack[i])'
    BY <1>0, <2>1 DEF FrameOK, ToCall, fields
  <2>3. QED
    BY <1>3, <2>2 DEF FramesOK, Nested
<1>6. OnceAlone'
  BY <1>3, <1>4 DEF GInv, OnceAlone
<1>7. CompletedSeen'
  BY <1>0 DEF CompletedSeen
<1>8. Called(s)
  BY <1>1 DEF Called
<1>9. mbFireOnce[s] => shots[s] = 1
  BY <1>2, <1>8 DEF GInv, ShotsExact
<1>10. /\ shots' \in [Slots -> Nat]
       /\ mbFireOnce[s] => shots'[s] = 0
       /\ \A t \in Slots \ {s} : shots'[t] = shots[t]
  <2>1. shots \in [Slots -> Nat]
    BY DEF GInv, TypeOK
  <2>2. CASE mbFireOnce[s]
    BY <1>0, <1>2, <1>9, <2>1, <2>2
  <2>3. CASE ~mbFireOnce[s]
    BY <1>0, <1>2, <2>1, <2>3
  <2>4. QED
    BY <2>2, <2>3
<1>11. mbFireOnce[s] => ~Called(s)'
  BY <1>0, <1>1, <1>3, Below DEF Called
<1>12. ASSUME NEW t \in Slots \ {s} PROVE Called(t)' <=> Called(t)
  <2>1. ASSUME NEW i \in DOMAIN stack, stack[i].at = t PROVE i \in DOMAIN Outer
    BY <1>1, <1>12, <2>1, TopPlaces
  <2>2. QED
    BY <1>3, <2>1 DEF Called
<1>13. ShotsExact'
  <2>1. ASSUME NEW t \in Slots, mbFireOnce[t]
        PROVE  /\ shots'[t] <= 1
               /\ mpcSignal[t] # None /\ ~mbFireOnceCompleted[t] =>
                    (shots'[t] = 1 <=> Called(t)')
    <3>1. CASE t = s
      <4>1. shots'[t] = 0 /\ 0 <= 1 /\ 0 # 1
        BY <1>10, <2>1, <3>1
      <4>2. ~Called(t)'
        BY <1>11, <2>1, <3>1
      <4>3. QED
        BY <4>1, <4>2
    <3>2. CASE t # s
      BY <1>10, <1>12, <2>1, <3>2 DEF GInv, ShotsExact
    <3>3. QED
      BY <3>1, <3>2
  <2>2. QED
    BY <1>4, <2>1 DEF ShotsExact
<1>14. TypeOK' /\ Coherent' /\ CompletedOff'
  BY <1>0, <1>3, <1>10, FieldsStay
<1>15. QED
  BY <1>5, <1>6, <1>7, <1>13, <1>14 DEF GInv

(* The function returns: a fire-once slot has completed and is off, and    *)
(* the dispatch knows.                                                     *)
LEMMA ReturnPreserves ==
  ASSUME GInv, stack # <<>>, Return, NEW s, s = Top.at
  PROVE  GInv'
<1> DEFINE list == mlistSlots[Top.sig]
           next == After(list, s)
           h == [Top EXCEPT !.phase = "visit", !.at = next,
                            !.bHasCompletedSlots = @ \/ mbFireOnce[s]]
           n == Len(stack)
           frames == Append(Outer, h)
<1>0. /\ Top.phase = "call"
      /\ mbFireOnceCompleted' = [mbFireOnceCompleted EXCEPT ![s] = @ \/ mbFireOnce[s]]
      /\ mbActive' = [mbActive EXCEPT ![s] = @ /\ ~mbFireOnce[s]]
      /\ UNCHANGED <<mlistSlots, mpcSignal, mbFireOnce, hasFunction, shots, thrown>>
      /\ Seen(frames)
  BY DEF Return
<1>1. /\ FrameOK(Top) /\ Top \in Frame /\ Top = stack[n] /\ n \in DOMAIN stack
      /\ Calling(Top)
  BY <1>0, TopFacts, Zenon DEF FrameOK, Calling
<1>2. /\ list \in Seq(Slots) /\ NoDuplicates(list) /\ s \in Members(list)
      /\ Top.sig \in Signals /\ s \in Slots /\ s # None
      /\ mpcSignal[s] = Top.sig
  <2>1. s # None /\ Top.sig \in Signals
    BY <1>1 DEF FrameOK, Frame
  <2>2. QED
    BY <1>1, <2>1, StandsAtOwn DEF GInv, TypeOK, Coherent
<1>3. /\ next # None => next \in Members(list)
      /\ \A x : x # s /\ Before(list, s, x) => next # None /\ Before(list, next, x)
      /\ \A x : next # None /\ Before(list, x, s) => Before(list, x, next) /\ x # next
  BY <1>2, AfterPlace
<1>4. next \in Slots \cup {None} /\ None \notin Members(list)
  BY <1>2, <1>3, SignalAssumption DEF Members
<1> HIDE DEF next
<1>5. /\ h \in Frame /\ h.sig = Top.sig /\ h.at = next /\ h.lost = Top.lost
      /\ h.phase = "visit" /\ h.due = Top.due /\ h.fired = Top.fired
      /\ h.bHasCompletedSlots <=> Top.bHasCompletedSlots \/ mbFireOnce[s]
  <2>1. h.sig = Top.sig /\ h.at = next /\ h.lost = Top.lost
        /\ h.phase = "visit" /\ h.due = Top.due /\ h.fired = Top.fired
    BY <1>1 DEF Frame
  <2>2. h.bHasCompletedSlots <=> Top.bHasCompletedSlots \/ mbFireOnce[s]
    BY <1>1 DEF Frame
  <2>3. h \in Frame
    BY <1>1, <1>4 DEF Frame
  <2>4. QED
    BY <2>1, <2>2, <2>3
<1> HIDE DEF h
<1>6. FrameOK(h)
  <2>1. Ordered(h, list)
    <3>1. \A x \in Top.due : x # s /\ Before(list, s, x)
      BY <1>1 DEF FrameOK, Ordered
    <3>2. \A x \in Top.fired : Before(list, x, s)
      BY <1>1, <1>2 DEF FrameOK, Ordered
    <3>3. QED
      BY <1>3, <1>5, <3>1, <3>2 DEF Ordered
  <2>2. h.at \notin h.fired
    <3>1. \A x \in Top.fired : Before(list, x, s) /\ x # None
      BY <1>1, <1>2, <1>4 DEF FrameOK, Ordered
    <3>2. QED
      BY <1>3, <1>5, <3>1
  <2>3. QED
    BY <1>1, <1>3, <1>5, <2>1, <2>2 DEF FrameOK, Calling
<1>7. /\ frames \in Seq(Frame) /\ Len(frames) = n /\ DOMAIN frames = DOMAIN stack
      /\ frames[n] = h /\ \A i \in DOMAIN Outer : frames[i] = stack[i]
      /\ \A i \in DOMAIN stack : i = n \/ i \in DOMAIN Outer
  BY <1>5, TopFacts, TopPlaces, Zenon
<1>8. \A i \in DOMAIN frames : FrameOK(frames[i])
  BY <1>6, <1>7 DEF GInv, FramesOK
<1> HIDE DEF frames
<1>9. /\ stack' \in Seq(Frame) /\ DOMAIN stack' = DOMAIN frames
      /\ Len(stack') = n /\ FramesOK'
      /\ \A i \in DOMAIN frames : SameFrame(stack'[i], frames[i])
  <2>1. mlistSlots \in [Signals -> Seq(Slots)] /\ mlistSlots' \in [Signals -> Seq(Slots)]
    BY <1>0 DEF GInv, TypeOK
  <2>2. \A g \in Signals : Follows(mlistSlots'[g], mlistSlots[g])
    BY <1>0, SameFollows
  <2>3. \A i \in DOMAIN frames : frames[i].at # None =>
          frames[i].at \in Members(mlistSlots'[frames[i].sig])
    BY <1>0, <1>8 DEF FrameOK
  <2>4. QED
    BY <1>0, <1>7, <1>8, <2>1, <2>2, <2>3, SeenKeeps
<1>10. /\ \A i \in DOMAIN Outer :
            /\ i \in DOMAIN stack' /\ Calling(stack'[i]) /\ stack'[i].at = stack[i].at
            /\ stack'[i].sig = stack[i].sig
            /\ stack'[i].bHasCompletedSlots = stack[i].bHasCompletedSlots
       /\ n \in DOMAIN stack' /\ ~Calling(stack'[n]) /\ stack'[n].sig = stack[n].sig
       /\ stack'[n].bHasCompletedSlots <=>
            stack[n].bHasCompletedSlots \/ mbFireOnce[s]
       /\ DOMAIN stack' = DOMAIN stack
  BY <1>1, <1>5, <1>7, <1>9, Below DEF SameFrame, Calling
<1>11. \A t \in Slots :
         /\ mbFireOnceCompleted'[t] <=> mbFireOnceCompleted[t] \/ (t = s /\ mbFireOnce[s])
         /\ mbActive'[t] <=> mbActive[t] /\ ~(t = s /\ mbFireOnce[s])
  BY <1>0 DEF GInv, TypeOK
<1>12. TypeOK'
  <2>1. mbFireOnceCompleted' \in [Slots -> BOOLEAN]
    BY <1>0 DEF GInv, TypeOK
  <2>2. mbActive' \in [Slots -> BOOLEAN]
    BY <1>0 DEF GInv, TypeOK
  <2>3. QED
    BY <1>0, <1>9, <2>1, <2>2 DEF GInv, TypeOK
<1>13. Coherent'
  BY <1>0 DEF GInv, Coherent
<1>14. Nested'
  <2>1. \A i \in DOMAIN stack' : i < n => i \in DOMAIN Outer
    BY <1>10, TopPlaces
  <2>2. QED
    BY <1>9, <1>10, <2>1 DEF Nested
<1>15. OnceAlone'
  <2>1. \A i \in DOMAIN stack' : Calling(stack'[i]) => i \in DOMAIN Outer
    BY <1>7, <1>10
  <2>2. ASSUME NEW i \in DOMAIN Outer
        PROVE  /\ ~mbFireOnceCompleted'[stack'[i].at]
               /\ mbFireOnce'[stack'[i].at] =>
                    \A j \in DOMAIN stack' : i < j => stack'[j].sig # stack'[i].sig
    <3>1. stack'[i].at = stack[i].at /\ stack[i].at \in Slots /\ i \in DOMAIN stack
      BY <1>10, Below
    <3>2. ~mbFireOnceCompleted'[stack'[i].at]
      BY <1>1, <1>11, <3>1, Below
    <3>3. \A j \in DOMAIN stack : stack'[j].sig = stack[j].sig
      BY <1>7, <1>10
    <3>4. mbFireOnce[stack[i].at] =>
            \A j \in DOMAIN stack : i < j => stack[j].sig # stack[i].sig
      BY <3>1, Below DEF GInv, OnceAlone
    <3>5. QED
      BY <1>0, <1>10, <3>1, <3>2, <3>3, <3>4
  <2>3. QED
    BY <2>1, <2>2 DEF OnceAlone
<1>16. CompletedOff'
  BY <1>11 DEF GInv, CompletedOff
<1>17. CompletedSeen'
  <2>1. ASSUME NEW t \in Slots, mbFireOnceCompleted'[t], mpcSignal[t] # None
        PROVE  thrown \/ \E i \in DOMAIN stack : /\ stack'[i].sig = mpcSignal[t]
                                                 /\ stack'[i].bHasCompletedSlots
    <3>1. CASE mbFireOnceCompleted[t]
      BY <1>7, <1>10, <2>1, <3>1 DEF GInv, CompletedSeen
    <3>2. CASE t = s /\ mbFireOnce[s]
      BY <1>1, <1>2, <1>10, <3>2
    <3>3. QED
      BY <1>11, <2>1, <3>1, <3>2
  <2>2. QED
    BY <1>0, <1>10, <2>1 DEF CompletedSeen
<1>18. ASSUME NEW t \in Slots \ {s} PROVE Called(t)' <=> Called(t)
  <2>1. ASSUME NEW i \in DOMAIN stack, stack[i].at = t PROVE i \in DOMAIN Outer
    BY <1>1, <1>18, <2>1, TopPlaces
  <2>2. \A i \in DOMAIN stack' : Calling(stack'[i]) => i \in DOMAIN Outer
    BY <1>7, <1>10
  <2>3. \A i \in DOMAIN Outer : Calling(stack[i]) /\ i \in DOMAIN stack
    BY Below
  <2>4. QED
    BY <1>10, <2>1, <2>2, <2>3 DEF Called
<1>19. ShotsExact'
  <2>1. ASSUME NEW t \in Slots, mbFireOnce[t]
        PROVE  /\ shots[t] <= 1
               /\ mpcSignal[t] # None /\ ~mbFireOnceCompleted'[t] =>
                    (shots[t] = 1 <=> Called(t)')
    <3>1. CASE t = s
      <4>1. mbFireOnceCompleted'[t]
        BY <1>11, <2>1, <3>1
      <4>2. shots[t] <= 1
        BY <2>1 DEF GInv, ShotsExact
      <4>3. QED
        BY <4>1, <4>2
    <3>2. CASE t # s
      BY <1>11, <1>18, <2>1, <3>2 DEF GInv, ShotsExact
    <3>3. QED
      BY <3>1, <3>2
  <2>2. QED
    BY <1>0, <2>1 DEF ShotsExact
<1>20. QED
  BY <1>9, <1>12, <1>13, <1>14, <1>15, <1>16, <1>17, <1>19 DEF GInv

(* removeCompletedSlots takes out the slots that have fired, at which no   *)
(* dispatch stands.                                                        *)
LEMMA RemoveCompletedEffect ==
  ASSUME GInv, NEW g \in Signals, RemoveCompletedSlots(g)
  PROVE  /\ mlistSlots' \in [Signals -> Seq(Slots)]
         /\ mpcSignal' \in [Slots -> Signals \cup {None}]
         /\ mbActive' \in [Slots -> BOOLEAN]
         /\ mbFireOnceCompleted' \in [Slots -> BOOLEAN]
         /\ Coherent'
         /\ \A h \in Signals : Follows(mlistSlots'[h], mlistSlots[h])
         /\ \A h \in Signals : \A s \in Members(mlistSlots[h]) :
              ~mbFireOnceCompleted[s] => s \in Members(mlistSlots'[h])
         /\ \A s \in Slots :
              \/ /\ mpcSignal'[s] = mpcSignal[s] /\ mbActive'[s] = mbActive[s]
                 /\ mbFireOnceCompleted'[s] = mbFireOnceCompleted[s]
                 /\ ~(mpcSignal[s] = g /\ mbFireOnceCompleted[s])
              \/ /\ mpcSignal[s] = g /\ mbFireOnceCompleted[s]
                 /\ mpcSignal'[s] = None /\ ~mbFireOnceCompleted'[s] /\ ~mbActive'[s]
<1> DEFINE gone == {s \in Members(mlistSlots[g]) : mbFireOnceCompleted[s]}
           new == Without(mlistSlots[g], gone)
<1>0. /\ mlistSlots' = [mlistSlots EXCEPT ![g] = new]
      /\ mbFireOnceCompleted' = [s \in Slots |-> s \notin gone /\ mbFireOnceCompleted[s]]
      /\ mbActive' = [s \in Slots |-> s \notin gone /\ mbActive[s]]
      /\ mpcSignal' = [s \in Slots |-> IF s \in gone THEN None ELSE mpcSignal[s]]
  BY DEF RemoveCompletedSlots
<1>1. /\ mlistSlots \in [Signals -> Seq(Slots)] /\ mbActive \in [Slots -> BOOLEAN]
      /\ mpcSignal \in [Slots -> Signals \cup {None}]
      /\ mbFireOnceCompleted \in [Slots -> BOOLEAN]
  BY DEF GInv, TypeOK
<1>2. /\ new \in Seq(Slots) /\ Members(new) = Members(mlistSlots[g]) \ gone
      /\ NoDuplicates(mlistSlots[g]) => NoDuplicates(new)
      /\ Follows(new, mlistSlots[g])
  BY <1>1, ShortenedList
<1>3. gone = {s \in Slots : mpcSignal[s] = g /\ mbFireOnceCompleted[s]}
  BY DEF GInv, Coherent
<1> HIDE DEF gone, new
<1>4. /\ mlistSlots' \in [Signals -> Seq(Slots)]
      /\ \A h \in Signals : mlistSlots'[h] = IF h = g THEN new ELSE mlistSlots[h]
  BY <1>0, <1>1, <1>2
<1>5. mpcSignal' \in [Slots -> Signals \cup {None}]
  BY <1>0, <1>1
<1>6. mbActive' \in [Slots -> BOOLEAN] /\ mbFireOnceCompleted' \in [Slots -> BOOLEAN]
  BY <1>0
<1>7. /\ \A s \in Slots \ gone :
           /\ mpcSignal'[s] = mpcSignal[s] /\ mbActive'[s] = mbActive[s]
           /\ mbFireOnceCompleted'[s] = mbFireOnceCompleted[s]
      /\ \A s \in gone :
           mpcSignal'[s] = None /\ ~mbFireOnceCompleted'[s] /\ ~mbActive'[s]
  <2>1. ASSUME NEW s \in Slots \ gone
        PROVE  /\ mpcSignal'[s] = mpcSignal[s] /\ mbActive'[s] = mbActive[s]
               /\ mbFireOnceCompleted'[s] = mbFireOnceCompleted[s]
    BY <1>0, <1>1
  <2>2. gone \subseteq Slots
    BY <1>3
  <2>3. ASSUME NEW s \in gone
        PROVE  mpcSignal'[s] = None /\ ~mbFireOnceCompleted'[s] /\ ~mbActive'[s]
    BY <1>0, <2>2
  <2>4. QED
    BY <2>1, <2>3
<1>8. Coherent'
  <2>1. ASSUME NEW h \in Signals
        PROVE  /\ NoDuplicates(mlistSlots'[h])
               /\ Members(mlistSlots'[h]) = {s \in Slots : mpcSignal'[s] = h}
    <3>1. Members(mlistSlots[h]) = {s \in Slots : mpcSignal[s] = h}
      BY DEF GInv, Coherent
    <3>2. \A s \in Slots : mpcSignal'[s] = h <=> s \notin gone /\ mpcSignal[s] = h
      BY <1>7, SignalAssumption
    <3>3. h # g => gone \cap Members(mlistSlots[h]) = {}
      BY <1>3, <3>1
    <3>4. Members(mlistSlots'[h]) = Members(mlistSlots[h]) \ gone
      BY <1>2, <1>4, <3>3
    <3>5. NoDuplicates(mlistSlots'[h])
      BY <1>2, <1>4 DEF GInv, Coherent
    <3>6. QED
      BY <3>1, <3>2, <3>4, <3>5
  <2>2. QED
    BY <2>1 DEF Coherent
<1>9. \A h \in Signals : Follows(mlistSlots'[h], mlistSlots[h])
  BY <1>2, <1>4, SameFollows
<1>10. \A h \in Signals : \A s \in Members(mlistSlots[h]) :
         ~mbFireOnceCompleted[s] => s \in Members(mlistSlots'[h])
  BY <1>2, <1>3, <1>4
<1>11. QED
  BY <1>3, <1>4, <1>5, <1>6, <1>7, <1>8, <1>9, <1>10

(* The end of a dispatch. *)
LEMMA EndDispatchPreserves ==
  ASSUME GInv, stack # <<>>, EndDispatch
  PROVE  GInv'
<1> DEFINE n == Len(stack)
           g == Top.sig
<1>0. /\ Top.phase = "visit" /\ Top.at = None
      /\ IF Top.bHasCompletedSlots THEN RemoveCompletedSlots(g)
         ELSE UNCHANGED <<mlistSlots, mpcSignal, mbActive, mbFireOnceCompleted>>
      /\ UNCHANGED <<mbFireOnce, hasFunction, shots, thrown>>
      /\ Seen(Outer)
  BY DEF EndDispatch
<1>1. Top = stack[n] /\ n \in DOMAIN stack /\ g \in Signals /\ ~Calling(stack[n])
  BY <1>0, TopFacts, Zenon DEF FrameOK, Frame, Calling
<1>2. /\ mlistSlots \in [Signals -> Seq(Slots)]
      /\ mlistSlots' \in [Signals -> Seq(Slots)]
      /\ mpcSignal' \in [Slots -> Signals \cup {None}]
      /\ mbActive' \in [Slots -> BOOLEAN]
      /\ mbFireOnceCompleted' \in [Slots -> BOOLEAN]
      /\ Coherent'
      /\ \A h \in Signals : Follows(mlistSlots'[h], mlistSlots[h])
      /\ \A h \in Signals : \A s \in Members(mlistSlots[h]) :
           ~mbFireOnceCompleted[s] => s \in Members(mlistSlots'[h])
  <2>1. CASE Top.bHasCompletedSlots
    BY <1>0, <1>1, <2>1, RemoveCompletedEffect DEF GInv, TypeOK
  <2>2. CASE ~Top.bHasCompletedSlots
    BY <1>0, <2>2, SameFollows DEF GInv, TypeOK, Coherent
  <2>3. QED
    BY <2>1, <2>2
<1>3. \A s \in Slots :
        \/ /\ mpcSignal'[s] = mpcSignal[s] /\ mbActive'[s] = mbActive[s]
           /\ mbFireOnceCompleted'[s] = mbFireOnceCompleted[s]
           /\ ~(mpcSignal[s] = g /\ mbFireOnceCompleted[s] /\ Top.bHasCompletedSlots)
        \/ /\ mpcSignal[s] = g /\ mbFireOnceCompleted[s]
           /\ mpcSignal'[s] = None /\ ~mbFireOnceCompleted'[s] /\ ~mbActive'[s]
  <2>1. CASE Top.bHasCompletedSlots
    BY <1>0, <1>1, <2>1, RemoveCompletedEffect
  <2>2. CASE ~Top.bHasCompletedSlots
    BY <1>0, <2>2
  <2>3. QED
    BY <2>1, <2>2
<1>4. /\ Outer \in Seq(Frame) /\ Len(Outer) = n - 1
      /\ \A i \in DOMAIN Outer : FrameOK(Outer[i])
  BY TopFacts DEF GInv, FramesOK
<1>5. \A i \in DOMAIN Outer : Outer[i].at # None =>
        Outer[i].at \in Members(mlistSlots'[Outer[i].sig])
  BY <1>2, Below, StandsAtOwn
<1>6. /\ stack' \in Seq(Frame) /\ DOMAIN stack' = DOMAIN Outer
      /\ Len(stack') = Len(Outer) /\ FramesOK'
      /\ \A i \in DOMAIN Outer : SameFrame(stack'[i], Outer[i])
  BY <1>0, <1>2, <1>4, <1>5, SeenKeeps
<1>7. \A i \in DOMAIN stack' :
        /\ i \in DOMAIN stack /\ Calling(stack'[i]) /\ Calling(stack[i])
        /\ stack'[i].at = stack[i].at /\ stack'[i].sig = stack[i].sig
        /\ stack'[i].bHasCompletedSlots = stack[i].bHasCompletedSlots
        /\ stack[i].at \in Slots /\ ~mbFireOnceCompleted[stack[i].at]
  BY <1>6, Below DEF SameFrame, Calling
<1>8. TypeOK'
  BY <1>0, <1>2, <1>6 DEF GInv, TypeOK
<1>9. Nested'
  BY <1>7 DEF Nested
<1>10. OnceAlone'
  <2>1. \A i \in DOMAIN stack' : ~mbFireOnceCompleted'[stack'[i].at]
    BY <1>3, <1>7
  <2>2. ASSUME NEW i \in DOMAIN stack', mbFireOnce'[stack'[i].at],
               NEW j \in DOMAIN stack', i < j
        PROVE  stack'[j].sig # stack'[i].sig
    BY <1>0, <1>7, <2>2 DEF GInv, OnceAlone
  <2>3. QED
    BY <2>1, <2>2 DEF OnceAlone
<1>11. CompletedOff'
  BY <1>3 DEF GInv, CompletedOff
<1>12. CompletedSeen'
  <2>1. ASSUME NEW s \in Slots, mbFireOnceCompleted'[s], mpcSignal'[s] # None, ~thrown
        PROVE  \E i \in DOMAIN stack' : /\ stack'[i].sig = mpcSignal'[s]
                                        /\ stack'[i].bHasCompletedSlots
    <3>1. /\ mpcSignal'[s] = mpcSignal[s] /\ mbFireOnceCompleted[s]
          /\ ~(mpcSignal[s] = g /\ Top.bHasCompletedSlots)
      BY <1>3, <2>1
    <3>2. PICK i \in DOMAIN stack : /\ stack[i].sig = mpcSignal[s]
                                    /\ stack[i].bHasCompletedSlots
      BY <2>1, <3>1 DEF GInv, CompletedSeen
    <3>3. i # n
      BY <1>1, <3>1, <3>2
    <3>4. i \in DOMAIN stack'
      BY <1>6, <3>3, TopPlaces
    <3>5. QED
      BY <1>7, <3>1, <3>2, <3>4
  <2>2. QED
    BY <1>0, <2>1 DEF CompletedSeen
<1>13. ASSUME NEW s \in Slots PROVE Called(s)' <=> Called(s)
  <2>1. \A i \in DOMAIN stack : Calling(stack[i]) => i \in DOMAIN stack'
    BY <1>1, <1>6, TopPlaces
  <2>2. QED
    BY <1>7, <2>1 DEF Called
<1>14. ShotsExact'
  BY <1>0, <1>3, <1>13 DEF GInv, ShotsExact
<1>15. QED
  BY <1>2, <1>6, <1>8, <1>9, <1>10, <1>11, <1>12, <1>14 DEF GInv

LEMMA NextPreserves == GInv /\ [Next]_vars => GInv'
<1> SUFFICES ASSUME GInv, [Next]_vars PROVE GInv'
  OBVIOUS
<1>1. CASE UNCHANGED vars
  <2>1. UNCHANGED <<mlistSlots, fields, stack, shots, thrown>>
    BY <1>1 DEF vars
  <2>2. FramesOK' /\ Nested'
    <3>1. ASSUME NEW i \in DOMAIN stack PROVE FrameOK(stack[i])'
      BY <2>1 DEF GInv, FramesOK, FrameOK, ToCall, fields
    <3>2. QED
      BY <2>1, <3>1 DEF GInv, FramesOK, Nested
  <2>3. QED
    BY <2>1, <2>2, SameCalls DEF GInv, TypeOK
<1>2. ASSUME Program, NEW g \in Signals, RemoveAll(g) \/ Dispatch(g) PROVE GInv'
  BY <1>2, RemoveAllPreserves, DispatchPreserves
<1>3. ASSUME NEW g \in Signals, NEW s \in Slots, AddSlot(g, s) \/ Remove(g, s)
      PROVE  GInv'
  BY <1>3, AddSlotPreserves, RemovePreserves
<1>4. ASSUME NEW s \in Slots, NEW x \in BOOLEAN, SetActive(s, x) PROVE GInv'
  BY <1>4, SetActivePreserves
<1>5. ASSUME NEW s \in Slots, Attach(s) \/ Renew(s) PROVE GInv'
  BY <1>5, AttachPreserves, RenewPreserves
<1>6. ASSUME stack # <<>>, Call \/ Skip \/ Return \/ Throw \/ EndDispatch PROVE GInv'
  BY <1>6, CallPreserves, SkipPreserves, ReturnPreserves, ThrowPreserves,
     EndDispatchPreserves
<1>7. QED
  BY <1>1, <1>2, <1>3, <1>4, <1>5, <1>6 DEF Next

LEMMA SignalInvariant == Spec => []GInv
BY InitEstablishes, NextPreserves, PTL DEF Spec

-----------------------------------------------------------------------------
(* Whatever callbacks do, in dispatches of any depth, a list holds slots,  *)
(* a slot points to a signal or to nothing, and no exception takes back a  *)
(* call that was not counted.                                              *)
THEOREM SignalTypes == Spec => []TypeOK
<1>1. GInv => TypeOK
  BY DEF GInv
<1>2. QED
  BY <1>1, SignalInvariant, PTL

(* A signal's list holds exactly the slots that point to the signal.       *)
THEOREM ListsMatchPointers == Spec => []Coherent
<1>1. GInv => Coherent
  BY DEF GInv
<1>2. QED
  BY <1>1, SignalInvariant, PTL

(* No dispatch goes on from an erased node.                                *)
THEOREM NoErasedNode == Spec => []IteratorsValid
<1>1. GInv => IteratorsValid
  BY DEF GInv, FramesOK, FrameOK, IteratorsValid
<1>2. QED
  BY <1>1, SignalInvariant, PTL

(* What a dispatch is to call is ahead of it, and what it has called is    *)
(* behind.                                                                 *)
THEOREM DispatchSkipsNothing == Spec => []NothingSkipped
<1>1. ASSUME GInv, NEW i \in DOMAIN stack
      PROVE  LET f == stack[i]
                 list == mlistSlots[f.sig]
                 Ahead(s) == \E j, k \in DOMAIN list :
                               j <= k /\ list[j] = f.at /\ list[k] = s
             IN /\ \A s \in f.due : Ahead(s)
                /\ f.phase = "visit" => f.at \notin f.fired
  <2>1. /\ \A s \in stack[i].due : Before(mlistSlots[stack[i].sig], stack[i].at, s)
        /\ stack[i].phase = "visit" => stack[i].at \notin stack[i].fired
    BY <1>1 DEF GInv, FramesOK, FrameOK, Ordered, Calling
  <2>2. QED
    BY <2>1 DEF Before
<1>2. GInv => NothingSkipped
  BY <1>1 DEF NothingSkipped
<1>3. QED
  BY <1>2, SignalInvariant, PTL

(* A fire-once slot is called once, and is out of the list when no         *)
(* dispatch is left, unless one was left by an exception.                  *)
THEOREM FiresOnceOnly == Spec => []FiredOnce
<1>1. ASSUME GInv PROVE FiredOnce
  <2>1. \A s \in Slots : mbFireOnce[s] => shots[s] <= 1
    BY <1>1 DEF GInv, ShotsExact
  <2>2. ASSUME stack = <<>>, ~thrown, NEW g \in Signals,
               NEW s \in Members(mlistSlots[g]), mbFireOnceCompleted[s]
        PROVE  FALSE
    <3>1. s \in Slots /\ mpcSignal[s] = g /\ g # None
      BY <1>1, <2>2, SignalAssumption DEF GInv, Coherent
    <3>2. DOMAIN stack = {}
      BY <2>2
    <3>3. QED
      BY <1>1, <2>2, <3>1, <3>2 DEF GInv, CompletedSeen
  <2>3. QED
    BY <2>1, <2>2 DEF FiredOnce
<1>2. QED
  BY <1>1, SignalInvariant, PTL
=============================================================================
