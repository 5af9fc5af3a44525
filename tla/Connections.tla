------------------------------ MODULE Connections ------------------------------
(***************************************************************************)
(* What evil::ThreadSignal and evil::ThreadSlot promise: a slot belongs to *)
(* one signal at a time, its function is called only by that signal, one   *)
(* call at a time, and while the function runs nobody takes the slot away, *)
(* switches it off, gives it another function or destroys it.  No list, no *)
(* lock and no method in progress: ThreadSignal implements these           *)
(* connections.                                                            *)
(***************************************************************************)

CONSTANTS
  Callers,        \* dispatches that may be in progress at one time
  Signals, Slots,
  None

VARIABLES
  attached,       \* of each slot: its signal, or None
  active,         \* of each slot: it may be called
  hasFunction,    \* of each slot: there is something to call
  slotLife,       \* "alive", "noFunction" (its destructor runs), "dead"
  signalLife,     \* "alive" or "dead"
  calling,        \* of each caller: the slot whose function it runs, or None
  source          \* of each caller that runs one: the signal it dispatches

ends  == <<slotLife, signalLife>>
calls == <<calling, source>>
vars  == <<attached, active, hasFunction, ends, calls>>

Init == /\ attached = [s \in Slots |-> None]
        /\ active = [s \in Slots |-> FALSE]
        /\ hasFunction = [s \in Slots |-> FALSE]
        /\ slotLife = [s \in Slots |-> "alive"]
        /\ signalLife = [sg \in Signals |-> "alive"]
        /\ calling = [c \in Callers |-> None]
        /\ source = [c \in Callers |-> None]

Running(s) == \E c \in Callers : calling[c] = s

(* What is changed has no function running. *)
Usable(s) == slotLife[s] = "alive" /\ ~Running(s)

Connect(s, sg) ==
  /\ Usable(s) /\ attached[s] = None /\ signalLife[sg] = "alive"
  /\ attached' = [attached EXCEPT ![s] = sg]
  /\ \E x \in BOOLEAN : active' = [active EXCEPT ![s] = x]
  /\ UNCHANGED <<hasFunction, ends, calls>>

Disconnect(s) ==
  /\ ~Running(s)
  /\ attached' = [attached EXCEPT ![s] = None]
  /\ active' = [active EXCEPT ![s] = FALSE]
  /\ UNCHANGED <<hasFunction, ends, calls>>

SetActive(s) ==
  /\ Usable(s)
  /\ \E x \in BOOLEAN : active' = [active EXCEPT ![s] = x]
  /\ UNCHANGED <<attached, hasFunction, ends, calls>>

Attach(s) ==
  /\ Usable(s)
  /\ \E f \in BOOLEAN : hasFunction' = [hasFunction EXCEPT ![s] = f]
  /\ UNCHANGED <<attached, active, ends, calls>>

(* The signal that has the slot calls its function. *)
Run(c, sg, s) ==
  /\ Usable(s) /\ attached[s] = sg /\ active[s] /\ hasFunction[s]
  /\ calling[c] = None
  /\ calling' = [calling EXCEPT ![c] = s]
  /\ source' = [source EXCEPT ![c] = sg]
  /\ UNCHANGED <<attached, active, hasFunction, ends>>

(* A slot that fires once is switched off when its function returns. *)
Return(c) ==
  /\ calling[c] # None
  /\ \E x \in BOOLEAN :
       active' = [active EXCEPT ![calling[c]] = @ /\ x]
  /\ calling' = [calling EXCEPT ![c] = None]
  /\ source' = [source EXCEPT ![c] = None]
  /\ UNCHANGED <<attached, hasFunction, ends>>

(* ~ThreadSlot begins when the function does not run, and ends when no     *)
(* signal has the slot.                                                    *)
EndFunction(s) ==
  /\ Usable(s)
  /\ slotLife' = [slotLife EXCEPT ![s] = "noFunction"]
  /\ UNCHANGED <<attached, active, hasFunction, signalLife, calls>>

EndSlot(s) ==
  /\ slotLife[s] = "noFunction" /\ attached[s] = None
  /\ slotLife' = [slotLife EXCEPT ![s] = "dead"]
  /\ UNCHANGED <<attached, active, hasFunction, signalLife, calls>>

(* A signal ends when it has no slot and calls none. *)
EndSignal(sg) ==
  /\ signalLife[sg] = "alive"
  /\ \A s \in Slots : attached[s] # sg
  /\ \A c \in Callers : source[c] # sg
  /\ signalLife' = [signalLife EXCEPT ![sg] = "dead"]
  /\ UNCHANGED <<attached, active, hasFunction, slotLife, calls>>

NewSlot(s) ==
  /\ slotLife[s] = "dead"
  /\ slotLife' = [slotLife EXCEPT ![s] = "alive"]
  /\ attached' = [attached EXCEPT ![s] = None]
  /\ active' = [active EXCEPT ![s] = FALSE]
  /\ hasFunction' = [hasFunction EXCEPT ![s] = FALSE]
  /\ UNCHANGED <<signalLife, calls>>

NewSignal(sg) ==
  /\ signalLife[sg] = "dead"
  /\ signalLife' = [signalLife EXCEPT ![sg] = "alive"]
  /\ UNCHANGED <<attached, active, hasFunction, slotLife, calls>>

Next == \/ \E s \in Slots, sg \in Signals : Connect(s, sg)
        \/ \E s \in Slots : \/ Disconnect(s) \/ SetActive(s) \/ Attach(s)
                            \/ EndFunction(s) \/ EndSlot(s) \/ NewSlot(s)
        \/ \E c \in Callers, s \in Slots, sg \in Signals : Run(c, sg, s)
        \/ \E c \in Callers : Return(c)
        \/ \E sg \in Signals : EndSignal(sg) \/ NewSignal(sg)

Spec == Init /\ [][Next]_vars
=============================================================================
