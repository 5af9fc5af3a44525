----------------------------- MODULE MCThreadQueue -----------------------------
(***************************************************************************)
(* ThreadQueue with a history variable that remembers who was waiting when *)
(* clear was called.                                                       *)
(***************************************************************************)
EXTENDS ThreadQueue

VARIABLE cleared    \* threads inside waitPop since before a call of clear

HInit == Init /\ cleared = {}

ClearSeen == Clear /\ cleared' = asking

Unseen(A) == A /\ cleared' = cleared \cap asking'

HNext ==
  \/ \E t \in Threads \ asking :
       \/ ClearSeen
       \/ Len(mQueue) < MaxLength /\ \E v \in Values : Unseen(Push(v))
       \/ Unseen(TryPop(t)) \/ Unseen(Invalidate)
  \/ \E t \in Threads : Unseen(WaitPop(t)) \/ Unseen(SpuriousWake(t))

HSpec == HInit /\ [][HNext]_<<vars, cleared>> /\ Fairness

(* waitPop "will block until a value is available unless clear is called"  *)
(* (thread-queue.h:57): whoever waits when clear is called returns.        *)
ClearReleases == \A t \in Threads : t \in cleared ~> t \notin asking
=============================================================================
