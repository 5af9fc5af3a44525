------------------------------- MODULE SlotList -------------------------------
(***************************************************************************)
(* mlistSlots, the list of slots of a signal, as a sequence, and the two   *)
(* raw operations of evil::SignalBase that insert in it and remove from it *)
(* (evil/signals/imp/signal-base.cpp).  priority[s] is miPriority of s.    *)
(*                                                                         *)
(* A definition named X_Y is X with the slip Y; nothing uses it.           *)
(***************************************************************************)
EXTENDS Integers, Sequences, FiniteSets

Members(list) == {list[i] : i \in DOMAIN list}

(* No slot is twice in the list. *)
NoDuplicates(list) == \A i, j \in DOMAIN list : list[i] = list[j] => i = j

(* Slots of higher priority come first. *)
Sorted(list, priority) == \A i, j \in DOMAIN list :
                            i < j => priority[list[j]] <= priority[list[i]]

-----------------------------------------------------------------------------
(* Where rawInsertSlot's for loop stops: the first slot of lower priority. *)
IsFirstLower(i, list, slot, priority) ==
  /\ priority[list[i]] < priority[slot]
  /\ \A j \in 1..(i - 1) : priority[slot] <= priority[list[j]]

InsertBefore(list, i, slot) ==
  [k \in 1..(Len(list) + 1) |-> IF k < i THEN list[k]
                                ELSE IF k = i THEN slot ELSE list[k - 1]]

RawInsertSlot_ForgetsFirst(list, slot, priority) ==
  IF list = <<>> THEN list ELSE Append(list, slot)

RawInsertSlot(list, slot, priority) ==
  IF list = <<>> THEN <<slot>>
  ELSE IF priority[slot] <= priority[list[Len(list)]] THEN Append(list, slot)
  ELSE InsertBefore(list, CHOOSE i \in DOMAIN list :
                            IsFirstLower(i, list, slot, priority), slot)

-----------------------------------------------------------------------------
(* The k-th smallest member of a set of numbers. *)
UpTo(numbers, i) == {j \in numbers : j <= i}
Nth(numbers, k) == CHOOSE i \in numbers : Cardinality(UpTo(numbers, i)) = k

(* The list without some slots; the others keep their order. *)
Kept(list, slots) == {i \in DOMAIN list : list[i] \notin slots}

Without(list, slots) ==
  LET kept == Kept(list, slots)
  IN [k \in 1..Cardinality(kept) |-> list[Nth(kept, k)]]

(* std::list::remove takes out every occurrence of the slot; no occurrence *)
(* is no error.                                                            *)
RawRemoveSlot(list, slot) == Without(list, {slot})
=============================================================================
