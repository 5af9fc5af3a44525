---------------------------- MODULE ReadWriteLock ----------------------------
(***************************************************************************)
(* What evil::ReadWriteLock promises: guards (ReadWriteLock objects, RAII) *)
(* that ask for one shared lock when they are constructed and give it back *)
(* when they are destroyed.  This is the abstract lock: no counter, no     *)
(* condition variable.  ReadWriteMutex implements it; ThreadSignal takes   *)
(* one such lock per signal.                                               *)
(***************************************************************************)

CONSTANT Guards     \* the ReadWriteLock objects that may exist at one time

VARIABLE mode       \* mode[g]: where the life of guard g stands

Modes == {"out", "wantRead", "wantWrite", "reading", "writing"}

Readers == {g \in Guards : mode[g] = "reading"}
Writers == {g \in Guards : mode[g] = "writing"}

Init == mode = [g \in Guards |-> "out"]

Move(g, from, to) == /\ mode[g] = from
                     /\ mode' = [mode EXCEPT ![g] = to]

(* The constructor is called with type READ or WRITE. *)
Request(g) == Move(g, "out", "wantRead") \/ Move(g, "out", "wantWrite")

(* The constructor returns: the lock is held. *)
AcquireRead(g)  == Writers = {} /\ Move(g, "wantRead", "reading")
AcquireWrite(g) == /\ Writers = {} /\ Readers = {}
                   /\ Move(g, "wantWrite", "writing")

(* The destructor. *)
Release(g) == Move(g, "reading", "out") \/ Move(g, "writing", "out")

Next == \E g \in Guards :
          Request(g) \/ AcquireRead(g) \/ AcquireWrite(g) \/ Release(g)

(* A lock that can be had is had: nobody is left waiting for a lock that   *)
(* stays free for it, and every holder gives the lock back.                *)
Fairness == \A g \in Guards : /\ WF_mode(AcquireRead(g))
                              /\ WF_mode(AcquireWrite(g))
                              /\ WF_mode(Release(g))

Spec == Init /\ [][Next]_mode /\ Fairness
=============================================================================
