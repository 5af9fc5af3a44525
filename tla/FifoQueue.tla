------------------------------- MODULE FifoQueue -------------------------------
(***************************************************************************)
(* What evil::ThreadQueue does, seen from outside: values come out in the  *)
(* order in which they went in, each to one thread; a thread that waits is *)
(* given a value or, at the end, refused.  No mutex and no condition       *)
(* variable: ThreadQueue implements this queue.                            *)
(*                                                                         *)
(* It follows the code where the code and its documentation part: Discard  *)
(* releases nobody, while thread-queue.h:57 says that waitPop blocks       *)
(* "unless clear is called" (ClearReleases in MCThreadQueue).              *)
(***************************************************************************)
EXTENDS Sequences

CONSTANTS
  Threads,        \* that use the queue
  Values,         \* that go through it
  Nothing         \* what a thread gets that gets no value

VARIABLES
  items,          \* values put and not yet given
  open,           \* the queue has not been closed
  asking,         \* threads that wait for a value
  out             \* of each thread: what it was given last

vars == <<items, open, asking, out>>

Init == /\ items = <<>>
        /\ open = TRUE
        /\ asking = {}
        /\ out = [t \in Threads |-> Nothing]

Put(v) == items' = Append(items, v) /\ UNCHANGED <<open, asking, out>>

Ask(t) == asking' = asking \cup {t} /\ UNCHANGED <<items, open, out>>

Answer(t, v) == /\ out' = [out EXCEPT ![t] = v]
                /\ asking' = asking \ {t}
                /\ UNCHANGED open

(* The oldest value goes to a thread that waits, or that has just come. *)
Give(t) == /\ open /\ items # <<>>
           /\ items' = Tail(items)
           /\ Answer(t, Head(items))

(* A thread that waits is refused only when the queue has been closed; one *)
(* that does not wait (tryPop) also when there is nothing to give.         *)
Refuse(t) == /\ ~open \/ (items = <<>> /\ t \notin asking)
             /\ Answer(t, Nothing)
             /\ UNCHANGED items

(* clear: who waits goes on waiting. *)
Discard == items' = <<>> /\ UNCHANGED <<open, asking, out>>

Close == open' = FALSE /\ UNCHANGED <<items, asking, out>>

Next == \/ \E v \in Values : Put(v)
        \/ \E t \in Threads : Ask(t) \/ Give(t) \/ Refuse(t)
        \/ Discard \/ Close

(* Values do not lie there while somebody waits for one, and after the     *)
(* end nobody is left waiting.                                             *)
Fairness == /\ WF_vars(\E t \in asking : Give(t))
            /\ \A t \in Threads : WF_vars(t \in asking /\ Refuse(t))

Spec == Init /\ [][Next]_vars /\ Fairness
=============================================================================
