-------------------------------- MODULE Signal --------------------------------
(***************************************************************************)
(* evil::Signal and evil::Slot with their bases (mbThreadSafe = false):    *)
(* one thread, no locks, and callbacks that call the library again while   *)
(* the dispatch that runs them walks its list.                             *)
(*                                                                         *)
(* A dispatch in progress is a frame on a stack; its range-for stands at a *)
(* slot.  std::list keeps an iterator valid until its own node is erased,  *)
(* so a frame is lost when the slot it stands at leaves the list.          *)
(*                                                                         *)
(* The destructor of a signal is rawRemoveAll, as removeAll is, and after  *)
(* it the signal is as good as new: RemoveAll stands for both.             *)
(*                                                                         *)
(* A definition named X_Y is X with the slip Y; nothing uses it.           *)
(***************************************************************************)
EXTENDS SlotList

CONSTANTS
  Signals, Slots,
  None,           \* the null pointer; the end of a list
  FireOnceArgs,   \* values given to fire_once; add and addOnce give FALSE,
                  \* a class derived from Signal may call addSlot with TRUE
  MaxDepth        \* bound: dispatches inside one another

ASSUME SignalAssumption ==
  None \notin Slots \cup Signals /\ FireOnceArgs \subseteq BOOLEAN

VARIABLES
  mlistSlots,                                 \* of each signal
  mpcSignal, mbActive, mbFireOnce, mbFireOnceCompleted, hasFunction,
  stack,          \* the dispatches in progress, innermost last
  shots,          \* history: completed or running calls of a fire-once slot
  thrown          \* history: a callback has thrown

fields == <<mpcSignal, mbActive, mbFireOnce, mbFireOnceCompleted, hasFunction>>
vars   == <<mlistSlots, fields, stack, shots, thrown>>

(* connectSignal takes a priority and drops it: the constructor's 0 stays. *)
miPriority == [s \in Slots |-> 0]

(* due and fired are history: the slots that were to be called when the    *)
(* dispatch began and have been all along, and those that were called.     *)
Frame == [sig : Signals, at : Slots \cup {None}, lost : BOOLEAN,
          phase : {"visit", "call"}, bHasCompletedSlots : BOOLEAN,
          due : SUBSET Slots, fired : SUBSET Slots]

Init == /\ mlistSlots = [g \in Signals |-> <<>>]
        /\ mpcSignal = [s \in Slots |-> None]
        /\ mbActive = [s \in Slots |-> FALSE]
        /\ mbFireOnce = [s \in Slots |-> FALSE]
        /\ mbFireOnceCompleted = [s \in Slots |-> FALSE]
        /\ hasFunction = [s \in Slots |-> FALSE]
        /\ stack = <<>>
        /\ shots = [s \in Slots |-> 0]
        /\ thrown = FALSE

Top     == stack[Len(stack)]
Outer   == SubSeq(stack, 1, Len(stack) - 1)
Running == {stack[i].at : i \in DOMAIN stack}

(* Code of the program runs: outside all dispatches, or in a callback. *)
Program == stack # <<>> => Top.phase = "call"

First(list) == IF list = <<>> THEN None ELSE Head(list)
After(list, s) == LET i == CHOOSE i \in DOMAIN list : list[i] = s
                  IN IF i = Len(list) THEN None ELSE list[i + 1]

(* What a change of lists and slots does to the dispatches in progress. *)
Seen(frames) ==
  stack' = [i \in DOMAIN frames |->
              LET f == frames[i]
                  There(s) == s \in Members(mlistSlots'[f.sig])
              IN [f EXCEPT !.lost  = @ \/ (f.at # None /\ ~There(f.at)),
                           !.due   = {s \in @ : There(s) /\ mbActive'[s] /\ hasFunction'[s]},
                           !.fired = {s \in @ : There(s)}]]

-----------------------------------------------------------------------------
ConnectSignal_StoresThis(s, g, fire_once, priority, active) ==
  /\ mpcSignal' = [mpcSignal EXCEPT ![s] = s]
  /\ mbActive' = [mbActive EXCEPT ![s] = active]
  /\ mbFireOnce' = [mbFireOnce EXCEPT ![s] = fire_once]
  /\ mbFireOnceCompleted' = [mbFireOnceCompleted EXCEPT ![s] = FALSE]

(* addSlot passes its arguments on; priority is not stored. *)
ConnectSignal(s, g, fire_once, priority, active) ==
  /\ mpcSignal' = [mpcSignal EXCEPT ![s] = g]
  /\ mbActive' = [mbActive EXCEPT ![s] = active]
  /\ mbFireOnce' = [mbFireOnce EXCEPT ![s] = fire_once]
  /\ mbFireOnceCompleted' = [mbFireOnceCompleted EXCEPT ![s] = FALSE]

(* releaseSignal, for each of some slots. *)
ReleaseSignal(slots) ==
  /\ mpcSignal' = [s \in Slots |-> IF s \in slots THEN None ELSE mpcSignal[s]]
  /\ mbActive' = [s \in Slots |-> s \notin slots /\ mbActive[s]]
  /\ mbFireOnce' = [s \in Slots |-> s \notin slots /\ mbFireOnce[s]]
  /\ mbFireOnceCompleted' = [s \in Slots |-> s \notin slots /\ mbFireOnceCompleted[s]]

AddSlot(g, s) ==
  /\ mpcSignal[s] = None
  /\ \E fire_once \in FireOnceArgs, active \in BOOLEAN :
       ConnectSignal(s, g, fire_once, miPriority[s], active)
  /\ mlistSlots' = [mlistSlots EXCEPT ![g] = RawInsertSlot(@, s, miPriority)]
  /\ shots' = [shots EXCEPT ![s] = 0]
  /\ UNCHANGED <<hasFunction, thrown>>
  /\ Seen(stack)

(* Client rule: remove is called on the signal that has the slot, if one   *)
(* has it; and no slot is taken from under a dispatch that stands at it.   *)
Remove(g, s) ==
  /\ mpcSignal[s] \in {g, None} /\ s \notin Running
  /\ mlistSlots' = [mlistSlots EXCEPT ![g] = RawRemoveSlot(@, s)]
  /\ ReleaseSignal({s})
  /\ UNCHANGED <<hasFunction, shots, thrown>>
  /\ Seen(stack)

RemoveAll(g) ==
  /\ Running \cap Members(mlistSlots[g]) = {}
  /\ ReleaseSignal(Members(mlistSlots[g]))
  /\ mlistSlots' = [mlistSlots EXCEPT ![g] = <<>>]
  /\ UNCHANGED <<hasFunction, shots, thrown>>
  /\ Seen(stack)

(* A slot that has fired once for all is not turned on again (client). *)
SetActive(s, x) ==
  /\ ~(x /\ mbFireOnceCompleted[s])
  /\ mbActive' = [mbActive EXCEPT ![s] = x]
  /\ UNCHANGED <<mlistSlots, mpcSignal, mbFireOnce, mbFireOnceCompleted,
                 hasFunction, shots, thrown>>
  /\ Seen(stack)

(* A function is not replaced while it runs (client); the new one may be   *)
(* empty.                                                                  *)
Attach(s) ==
  /\ s \notin Running
  /\ \E f \in BOOLEAN : hasFunction' = [hasFunction EXCEPT ![s] = f]
  /\ UNCHANGED <<mlistSlots, mpcSignal, mbActive, mbFireOnce,
                 mbFireOnceCompleted, shots, thrown>>
  /\ Seen(stack)

(* ~SlotBase, and another slot is constructed at the address. *)
Renew(s) ==
  /\ s \notin Running
  /\ mlistSlots' = IF mpcSignal[s] = None THEN mlistSlots
                   ELSE [mlistSlots EXCEPT ![mpcSignal[s]] = RawRemoveSlot(@, s)]
  /\ ReleaseSignal({s})
  /\ hasFunction' = [hasFunction EXCEPT ![s] = FALSE]
  /\ UNCHANGED <<shots, thrown>>
  /\ Seen(stack)

-----------------------------------------------------------------------------
ToCall(g) == {s \in Members(mlistSlots[g]) : mbActive[s] /\ hasFunction[s]}

(* dispatch is called.  Client rule: not by the callback of a fire-once    *)
(* slot of the same signal, which would be called again (signal.h:32).     *)
Dispatch(g) ==
  /\ Len(stack) < MaxDepth
  /\ \A s \in Running : ~(mpcSignal[s] = g /\ mbFireOnce[s])
  /\ stack' = Append(stack,
       [sig |-> g, at |-> First(mlistSlots[g]), lost |-> FALSE,
        phase |-> "visit", bHasCompletedSlots |-> FALSE,
        due |-> ToCall(g), fired |-> {}])
  /\ UNCHANGED <<mlistSlots, fields, shots, thrown>>

(* The loop's test and the call of the slot's function. *)
Call == /\ Top.phase = "visit" /\ Top.at \in ToCall(Top.sig)
        /\ stack' = Append(Outer, [Top EXCEPT !.phase = "call",
                                              !.due = @ \ {Top.at},
                                              !.fired = @ \cup {Top.at}])
        /\ shots' = [shots EXCEPT ![Top.at] = IF mbFireOnce[Top.at] THEN @ + 1 ELSE @]
        /\ UNCHANGED <<mlistSlots, fields, thrown>>

Skip_Breaks ==
  /\ Top.phase = "visit" /\ Top.at \notin ToCall(Top.sig) \cup {None}
  /\ stack' = Append(Outer, [Top EXCEPT !.at = None])
  /\ UNCHANGED <<mlistSlots, fields, shots, thrown>>

(* An inactive slot, or one without a function, is passed by. *)
Skip == /\ Top.phase = "visit" /\ Top.at \notin ToCall(Top.sig) \cup {None}
        /\ stack' = Append(Outer, [Top EXCEPT !.at = After(mlistSlots[Top.sig], Top.at)])
        /\ UNCHANGED <<mlistSlots, fields, shots, thrown>>

Return_LeavesActive ==
  /\ Top.phase = "call"
  /\ mbFireOnceCompleted' = [mbFireOnceCompleted EXCEPT ![Top.at] = @ \/ mbFireOnce[Top.at]]
  /\ stack' = Append(Outer,
       [Top EXCEPT !.phase = "visit", !.at = After(mlistSlots[Top.sig], Top.at),
                   !.bHasCompletedSlots = @ \/ mbFireOnce[Top.at]])
  /\ UNCHANGED <<mlistSlots, mpcSignal, mbFireOnce, mbActive, hasFunction, shots, thrown>>

Return_RemovesAtOnce ==
  /\ Top.phase = "call"
  /\ IF mbFireOnce[Top.at]
     THEN /\ ReleaseSignal({Top.at})
          /\ mlistSlots' = [mlistSlots EXCEPT ![Top.sig] = RawRemoveSlot(@, Top.at)]
     ELSE UNCHANGED <<mlistSlots, mpcSignal, mbActive, mbFireOnce, mbFireOnceCompleted>>
  /\ UNCHANGED <<hasFunction, shots, thrown>>
  /\ Seen(Append(Outer, [Top EXCEPT !.phase = "visit"]))

(* The function returns: the end of triggerSlot, and on to the next slot. *)
Return ==
  LET s == Top.at
      once == mbFireOnce[s]
  IN /\ Top.phase = "call"
     /\ mbFireOnceCompleted' = [mbFireOnceCompleted EXCEPT ![s] = @ \/ once]
     /\ mbActive' = [mbActive EXCEPT ![s] = @ /\ ~once]
     /\ UNCHANGED <<mlistSlots, mpcSignal, mbFireOnce, hasFunction, shots, thrown>>
     /\ Seen(Append(Outer,
          [Top EXCEPT !.phase = "visit", !.at = After(mlistSlots[Top.sig], s),
                      !.bHasCompletedSlots = @ \/ once]))

(* The function throws: the dispatch is unwound; whoever called it may     *)
(* catch the exception or throw on.                                        *)
Throw == /\ Top.phase = "call"
         /\ stack' = Outer /\ thrown' = TRUE
         /\ shots' = [shots EXCEPT ![Top.at] = IF mbFireOnce[Top.at] THEN @ - 1 ELSE @]
         /\ UNCHANGED <<mlistSlots, fields>>

RemoveCompletedSlots_KeepsPointers(g) ==
  LET gone == {s \in Members(mlistSlots[g]) : mbFireOnceCompleted[s]}
  IN /\ mlistSlots' = [mlistSlots EXCEPT ![g] = Without(@, gone)]
     /\ mbFireOnceCompleted' = [s \in Slots |-> s \notin gone /\ mbFireOnceCompleted[s]]
     /\ mbActive' = [s \in Slots |-> s \notin gone /\ mbActive[s]]
     /\ UNCHANGED mpcSignal

RemoveCompletedSlots(g) ==
  LET gone == {s \in Members(mlistSlots[g]) : mbFireOnceCompleted[s]}
  IN /\ mlistSlots' = [mlistSlots EXCEPT ![g] = Without(@, gone)]
     /\ mbFireOnceCompleted' = [s \in Slots |-> s \notin gone /\ mbFireOnceCompleted[s]]
     /\ mbActive' = [s \in Slots |-> s \notin gone /\ mbActive[s]]
     /\ mpcSignal' = [s \in Slots |-> IF s \in gone THEN None ELSE mpcSignal[s]]

(* After the loop. *)
EndDispatch ==
  /\ Top.phase = "visit" /\ Top.at = None
  /\ IF Top.bHasCompletedSlots
     THEN RemoveCompletedSlots(Top.sig)
     ELSE UNCHANGED <<mlistSlots, mpcSignal, mbActive, mbFireOnceCompleted>>
  /\ UNCHANGED <<mbFireOnce, hasFunction, shots, thrown>>
  /\ Seen(Outer)

-----------------------------------------------------------------------------
Next == \/ /\ Program
           /\ \/ \E g \in Signals : RemoveAll(g) \/ Dispatch(g)
              \/ \E g \in Signals, s \in Slots : AddSlot(g, s) \/ Remove(g, s)
              \/ \E s \in Slots, x \in BOOLEAN : SetActive(s, x)
              \/ \E s \in Slots : Attach(s) \/ Renew(s)
        \/ stack # <<>> /\ (Call \/ Skip \/ Return \/ Throw \/ EndDispatch)

Spec == Init /\ [][Next]_vars

-----------------------------------------------------------------------------
(* The shape of the state; a slot names a signal or nothing, and no        *)
(* exception takes back a call that was not counted.                       *)
TypeOK ==
  /\ mlistSlots \in [Signals -> Seq(Slots)]
  /\ mpcSignal \in [Slots -> Signals \cup {None}]
  /\ mbActive \in [Slots -> BOOLEAN]
  /\ mbFireOnce \in [Slots -> BOOLEAN]
  /\ mbFireOnceCompleted \in [Slots -> BOOLEAN]
  /\ hasFunction \in [Slots -> BOOLEAN]
  /\ stack \in Seq(Frame)
  /\ shots \in [Slots -> Nat]
  /\ thrown \in BOOLEAN

(* A signal's list holds exactly the slots that point to the signal, each  *)
(* once, whatever callbacks and removeCompletedSlots have done.            *)
Coherent == \A g \in Signals :
              /\ NoDuplicates(mlistSlots[g])
              /\ Members(mlistSlots[g]) = {s \in Slots : mpcSignal[s] = g}

(* No dispatch, however deep, goes on from an erased node: the fire-once   *)
(* slots that inner dispatches remove are never the ones that outer ones   *)
(* stand at.                                                               *)
IteratorsValid == \A i \in DOMAIN stack : ~stack[i].lost

(* Whatever the callbacks do to the list, a slot that was to be called     *)
(* when a dispatch began, and could be all along, has been called or is    *)
(* still ahead; and no dispatch comes to a slot it has called already.     *)
NothingSkipped ==
  \A i \in DOMAIN stack :
    LET f == stack[i]
        list == mlistSlots[f.sig]
        Ahead(s) == \E j, k \in DOMAIN list : j <= k /\ list[j] = f.at /\ list[k] = s
    IN /\ \A s \in f.due : Ahead(s)
       /\ f.phase = "visit" => f.at \notin f.fired

(* A fire-once slot is called once, nested dispatches and exceptions       *)
(* included, and is gone from the list when the dispatch is over, unless   *)
(* an exception kept a dispatch from removing it.                          *)
FiredOnce ==
  /\ \A s \in Slots : mbFireOnce[s] => shots[s] <= 1
  /\ stack = <<>> /\ ~thrown =>
       \A g \in Signals : \A s \in Members(mlistSlots[g]) : ~mbFireOnceCompleted[s]
=============================================================================
