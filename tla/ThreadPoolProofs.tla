--------------------------- MODULE ThreadPoolProofs ---------------------------
(***************************************************************************)
(* Machine-checked proofs about ThreadPool, for every finite set of tasks  *)
(* and workers and every set of clients.  The queue inside the pool keeps  *)
(* the invariant that ThreadQueueProofs proves of it, by the lemmas of     *)
(* that module.                                                            *)
(*                                                                         *)
(* A task is in one place because its state says which: queued if and only *)
(* if it is in the queue, where it is once, and running if and only if a   *)
(* worker has it, and then only one.                                       *)
(***************************************************************************)
EXTENDS ThreadPool, FiniteSetTheorems, TLAPS

QP == INSTANCE ThreadQueueProofs
        WITH Threads <- Workers, Values <- Tasks, MaxLength <- Cardinality(Tasks)

Stages     == {"building", "up", "invalidate", "join", "gone", "terminated"}
TaskStates == {"new", "queued", "running"} \cup Settled

PoolTyped ==
  /\ mbDone \in BOOLEAN
  /\ numThreads \in Nat
  /\ pc \in [Workers -> {"none", "test", "pop", "run", "exit"}]
  /\ stage \in Stages
  /\ state \in [Tasks -> TaskStates]
  /\ owner \in [Tasks -> Actors \cup {Nothing}]
  /\ wait \in [Actors -> ({"get", "drop"} \X Tasks) \cup {Nothing}]

QueueExact ==
  /\ \A i, j \in DOMAIN mQueue : mQueue[i] = mQueue[j] => i = j
  /\ \A t \in Tasks :
       state[t] = "queued" <=> \E i \in DOMAIN mQueue : mQueue[i] = t

Runs(w, t) == pc[w] = "run" /\ out[w] = t

WorkersExact ==
  /\ \A w \in Workers : pc[w] = "run" => out[w] \in Tasks
  /\ \A v, w \in Workers :
       pc[v] = "run" /\ pc[w] = "run" /\ out[v] = out[w] => v = w
  /\ \A t \in Tasks : state[t] = "running" <=> \E w \in Workers : Runs(w, t)

AskersPop == \A w \in asking : pc[w] = "pop"

OwnedSubmitted == \A t \in Tasks : owner[t] # Nothing => state[t] # "new"

EndExact ==
  /\ stage = "gone" => /\ mQueue = <<>>
                       /\ \A w \in Workers : pc[w] \in {"none", "exit"}
  /\ (\E t \in Tasks : state[t] = "broken") => stage \in {"gone", "terminated"}

IInv == /\ QP!IInv /\ PoolTyped
        /\ QueueExact /\ WorkersExact /\ AskersPop /\ OwnedSubmitted /\ EndExact

-----------------------------------------------------------------------------
(* What the assumption on the pool gives the queue. *)
LEMMA QueueConstants ==
  QP!IsFiniteSet(Workers) /\ Nothing \notin Tasks /\ Cardinality(Tasks) \in Nat
<1>1. /\ Cardinality(Tasks) \in Nat
      /\ IsFiniteSet(Workers) /\ Nothing \notin Tasks
  BY PoolAssumption, FS_CardinalityType
<1>2. QP!IsFiniteSet(Workers)
  BY <1>1 DEF QP!IsFiniteSet, IsFiniteSet
<1>3. QED
  BY <1>1, <1>2

(* The shape of the queue. *)
LEMMA QueueTyped ==
  ASSUME QP!IInv
  PROVE  /\ mQueue \in Seq(Tasks)
         /\ asking \subseteq Workers
         /\ out \in [Workers -> Tasks \cup {Nothing}]
         /\ Queue!TypeOK
BY DEF QP!IInv, QP!TypeOK, Queue!TypeOK

(* push: one value more at the end, and the queue's invariant. *)
LEMMA PushEffect ==
  ASSUME QP!IInv, NEW t \in Tasks, Queue!Push(t)
  PROVE  /\ QP!IInv'
         /\ mQueue' = Append(mQueue, t)
         /\ UNCHANGED <<asking, out>>
<1>1. QP!Push(t)
  BY DEF Queue!Push, QP!Push, Queue!NotifyOne, QP!NotifyOne
<1>2. QP!IInv'
  BY <1>1, QueueConstants, QP!PushPreserves
<1>3. QED
  BY <1>2 DEF Queue!Push

Sleeps(w)  == /\ UNCHANGED <<mQueue, out>>
              /\ asking' = asking \cup {w}
Takes(w)   == /\ mQueue # <<>> /\ mQueue' = Tail(mQueue)
              /\ out' = [out EXCEPT ![w] = Head(mQueue)]
              /\ asking' = asking \ {w}
Refused(w) == /\ UNCHANGED mQueue
              /\ out' = [out EXCEPT ![w] = Nothing]
              /\ asking' = asking \ {w}

(* waitPop: sleep, take the head, or return with nothing. *)
LEMMA WaitPopEffect ==
  ASSUME QP!IInv, NEW w \in Workers, Queue!WaitPop(w)
  PROVE  /\ QP!IInv'
         /\ Sleeps(w) \/ Takes(w) \/ Refused(w)
<1>1. QP!WaitPop(w)
  BY DEF Queue!WaitPop, QP!WaitPop, Queue!Block, QP!Block, Queue!Take, QP!Take,
         Queue!ReturnFalse, QP!ReturnFalse, Queue!empty, QP!empty,
         Queue!isValid, QP!isValid
<1>2. QP!IInv'
  BY <1>1, QueueConstants, QP!WaitPopPreserves
<1>3. CASE Queue!Block(w)
  BY <1>2, <1>3 DEF Queue!Block, Sleeps
<1>4. CASE ~Queue!Block(w)
  BY <1>2, <1>4 DEF Queue!WaitPop, Queue!Take, Queue!ReturnFalse, Queue!empty,
                    Queue!isValid, Takes, Refused
<1>5. QED
  BY <1>3, <1>4

(* invalidate, clear and a spurious wake-up. *)
LEMMA OtherQueueEffects ==
  ASSUME QP!IInv
  PROVE  /\ Queue!Invalidate => QP!IInv' /\ UNCHANGED <<mQueue, asking, out>>
         /\ Queue!Clear => QP!IInv' /\ mQueue' = <<>> /\ UNCHANGED <<asking, out>>
         /\ \A w \in Workers : Queue!SpuriousWake(w) =>
              QP!IInv' /\ UNCHANGED <<mQueue, asking, out>>
<1>1. Queue!Invalidate => QP!Invalidate
  BY DEF Queue!Invalidate, QP!Invalidate, Queue!NotifyAll, QP!NotifyAll
<1>2. Queue!Clear => QP!Clear
  BY DEF Queue!Clear, QP!Clear, Queue!NotifyAll, QP!NotifyAll
<1>3. ASSUME NEW w \in Workers, Queue!SpuriousWake(w)
      PROVE  QP!IInv' /\ UNCHANGED <<mQueue, asking, out>>
  <2>1. QP!SpuriousWake(w)
    BY <1>3 DEF Queue!SpuriousWake, QP!SpuriousWake
  <2>2. QP!IInv'
    BY <2>1, QueueConstants, QP!SpuriousWakePreserves
  <2>3. QED
    BY <1>3, <2>2 DEF Queue!SpuriousWake
<1>4. Queue!Invalidate \/ Queue!Clear => QP!IInv'
  BY <1>1, <1>2, QueueConstants, QP!NotifyAllPreserves
<1>5. QED
  BY <1>3, <1>4 DEF Queue!Invalidate, Queue!Clear

(* A step that leaves the queue alone keeps its invariant. *)
LEMMA QueueAlone ==
  ASSUME QP!IInv, UNCHANGED queueVars
  PROVE  QP!IInv' /\ UNCHANGED <<mQueue, asking, out>>
<1>1. UNCHANGED QP!vars
  BY DEF queueVars, QP!vars
<1>2. QP!IInv'
  BY <1>1, QueueConstants, QP!NextPreserves
<1>3. QED
  BY <1>2 DEF queueVars

-----------------------------------------------------------------------------
LEMMA InitEstablishes == Init => IInv
<1> SUFFICES ASSUME Init PROVE IInv
  OBVIOUS
<1>1. QP!IInv
  <2>1. QP!Init
    BY DEF Init, Queue!Init, QP!Init
  <2>2. QED
    BY <2>1, QueueConstants, QP!InitEstablishes
<1>2. PoolTyped
  <2>1. numThreads \in Nat
    <3>1. CASE numThreads \in ExplicitThreads
      BY <3>1, PoolAssumption
    <3>2. CASE numThreads \in {DefaultThreads(h) : h \in HardwareConcurrency}
      <4>1. PICK h \in HardwareConcurrency : numThreads = DefaultThreads(h)
        BY <3>2
      <4>2. h \in Nat
        BY <4>1, PoolAssumption
      <4>3. QED
        BY <4>1, <4>2 DEF DefaultThreads
    <3>3. QED
      BY <3>1, <3>2 DEF Init
  <2>2. QED
    BY <2>1 DEF Init, PoolTyped, Stages, TaskStates
<1>3. /\ mQueue = <<>> /\ asking = {}
      /\ pc = [w \in Workers |-> "none"] /\ state = [t \in Tasks |-> "new"]
      /\ stage \in {"building", "up"} /\ owner = [t \in Tasks |-> Nothing]
  BY DEF Init, Queue!Init
<1>4. QueueExact
  BY <1>3 DEF QueueExact
<1>5. WorkersExact /\ AskersPop
  BY <1>3 DEF WorkersExact, AskersPop, Runs
<1>6. OwnedSubmitted /\ EndExact
  BY <1>3 DEF OwnedSubmitted, EndExact
<1>7. QED
  BY <1>1, <1>2, <1>4, <1>5, <1>6 DEF IInv

(* A new task at the end of the queue, and the head taken from it. *)
LEMMA QueueGrows ==
  ASSUME IInv, NEW t \in Tasks, state[t] = "new",
         mQueue' = Append(mQueue, t), state' = [state EXCEPT ![t] = "queued"]
  PROVE  QueueExact'
<1>1. mQueue \in Seq(Tasks)
  BY QueueTyped DEF IInv
<1>2. /\ DOMAIN mQueue' = DOMAIN mQueue \cup {Len(mQueue) + 1}
      /\ Len(mQueue) + 1 \notin DOMAIN mQueue
      /\ mQueue'[Len(mQueue) + 1] = t
      /\ \A i \in DOMAIN mQueue : mQueue'[i] = mQueue[i] /\ mQueue[i] # t
  BY <1>1 DEF IInv, QueueExact
<1>3. \A u \in Tasks : state'[u] = IF u = t THEN "queued" ELSE state[u]
  BY DEF IInv, PoolTyped
<1>4. \A i, j \in DOMAIN mQueue' : mQueue'[i] = mQueue'[j] => i = j
  BY <1>2 DEF IInv, QueueExact
<1>5. \A u \in Tasks : state'[u] = "queued" <=> \E i \in DOMAIN mQueue' : mQueue'[i] = u
  BY <1>2, <1>3 DEF IInv, QueueExact
<1>6. QED
  BY <1>4, <1>5 DEF QueueExact

LEMMA QueueShrinks ==
  ASSUME IInv, mQueue # <<>>, mQueue' = Tail(mQueue),
         state' = [state EXCEPT ![Head(mQueue)] = "running"]
  PROVE  /\ Head(mQueue) \in Tasks /\ state[Head(mQueue)] = "queued"
         /\ QueueExact'
<1>1. mQueue \in Seq(Tasks)
  BY QueueTyped DEF IInv
<1>2. /\ Head(mQueue) \in Tasks /\ Head(mQueue) = mQueue[1] /\ 1 \in DOMAIN mQueue
      /\ DOMAIN mQueue' = 1..(Len(mQueue) - 1) /\ DOMAIN mQueue = 1..Len(mQueue)
      /\ Len(mQueue) \in Nat
      /\ \A i \in DOMAIN mQueue' : mQueue'[i] = mQueue[i + 1]
  BY <1>1
<1>3. state[Head(mQueue)] = "queued"
  BY <1>2 DEF IInv, QueueExact
<1>4. \A u \in Tasks :
        state'[u] = IF u = Head(mQueue) THEN "running" ELSE state[u]
  BY <1>2 DEF IInv, PoolTyped
<1>5. \A i \in DOMAIN mQueue' : i + 1 \in DOMAIN mQueue /\ i \in Int
  BY <1>2
<1>6. \A i, j \in DOMAIN mQueue' : mQueue'[i] = mQueue'[j] => i = j
  BY <1>2, <1>5 DEF IInv, QueueExact
<1>7. ASSUME NEW u \in Tasks
      PROVE  state'[u] = "queued" <=> \E i \in DOMAIN mQueue' : mQueue'[i] = u
  <2>1. CASE u = Head(mQueue)
    <3>1. ASSUME NEW i \in DOMAIN mQueue' PROVE mQueue'[i] # u
      <4>1. mQueue'[i] = mQueue[i + 1] /\ i + 1 \in DOMAIN mQueue /\ i + 1 # 1
        BY <1>2, <3>1
      <4>2. QED
        BY <1>2, <2>1, <4>1 DEF IInv, QueueExact
    <3>2. QED
      BY <1>4, <2>1, <3>1
  <2>2. CASE u # Head(mQueue)
    <3>1. (\E i \in DOMAIN mQueue : mQueue[i] = u)
            <=> \E i \in DOMAIN mQueue' : mQueue'[i] = u
      <4>1. ASSUME NEW i \in DOMAIN mQueue, mQueue[i] = u
            PROVE  \E k \in DOMAIN mQueue' : mQueue'[k] = u
        <5>1. i - 1 \in DOMAIN mQueue' /\ (i - 1) + 1 = i
          BY <1>2, <2>2, <4>1
        <5>2. QED
          BY <1>2, <4>1, <5>1
      <4>2. QED
        BY <1>2, <1>5, <4>1
    <3>2. QED
      BY <1>4, <2>2, <3>1 DEF IInv, QueueExact
  <2>3. QED
    BY <2>1, <2>2
<1>8. QED
  BY <1>2, <1>3, <1>6, <1>7 DEF QueueExact

(* A task that a worker takes, and one that it has run. *)
LEMMA WorkerTakes ==
  ASSUME IInv, NEW w \in Workers, NEW t \in Tasks, pc[w] = "pop",
         state[t] = "queued",
         pc' = [pc EXCEPT ![w] = "run"], out' = [out EXCEPT ![w] = t],
         state' = [state EXCEPT ![t] = "running"]
  PROVE  WorkersExact'
<1>1. /\ \A v \in Workers : pc'[v] = IF v = w THEN "run" ELSE pc[v]
      /\ \A v \in Workers : out'[v] = IF v = w THEN t ELSE out[v]
      /\ \A u \in Tasks : state'[u] = IF u = t THEN "running" ELSE state[u]
  BY QueueTyped DEF IInv, PoolTyped
<1>2. \A v \in Workers : ~Runs(v, t)
  BY DEF IInv, WorkersExact
<1>3. /\ \A v \in Workers : pc'[v] = "run" => out'[v] \in Tasks
      /\ \A u, v \in Workers :
           pc'[u] = "run" /\ pc'[v] = "run" /\ out'[u] = out'[v] => u = v
  BY <1>1, <1>2 DEF IInv, WorkersExact, Runs
<1>4. \A u \in Tasks : state'[u] = "running" <=> \E v \in Workers : Runs(v, u)'
  BY <1>1, <1>2 DEF IInv, WorkersExact, Runs
<1>5. QED
  BY <1>3, <1>4 DEF WorkersExact

LEMMA WorkerIsDone ==
  ASSUME IInv, NEW w \in Workers, pc[w] = "run", NEW o \in {"value", "threw"},
         pc' = [pc EXCEPT ![w] = "test"], state' = [state EXCEPT ![out[w]] = o],
         UNCHANGED out
  PROVE  WorkersExact'
<1>1. /\ out[w] \in Tasks
      /\ \A v \in Workers : pc'[v] = IF v = w THEN "test" ELSE pc[v]
      /\ \A u \in Tasks : state'[u] = IF u = out[w] THEN o ELSE state[u]
  BY DEF IInv, PoolTyped, WorkersExact
<1>2. \A v \in Workers, u \in Tasks : Runs(v, u)' <=> Runs(v, u) /\ v # w
  BY <1>1 DEF Runs
<1>3. \A v \in Workers : Runs(v, out[w]) => v = w
  BY DEF IInv, WorkersExact, Runs
<1>4. \A u \in Tasks : Runs(w, u) <=> u = out[w]
  BY DEF Runs
<1>5. \A u \in Tasks : state'[u] = "running" <=> \E v \in Workers : Runs(v, u)'
  BY <1>1, <1>2, <1>3, <1>4 DEF IInv, WorkersExact
<1>6. QED
  BY <1>1, <1>5 DEF IInv, WorkersExact

(* Workers that do not run anything before or after. *)
LEMMA WorkersStay ==
  ASSUME IInv,
         \A v \in Workers : pc'[v] # pc[v] => pc[v] # "run" /\ pc'[v] # "run",
         \A v \in Workers : pc[v] = "run" => out'[v] = out[v],
         \A u \in Tasks : state'[u] = "running" <=> state[u] = "running"
  PROVE  WorkersExact'
<1>1. \A v \in Workers, u \in Tasks : Runs(v, u)' <=> Runs(v, u)
  BY DEF Runs
<1>2. \A u \in Tasks : state'[u] = "running" <=> \E v \in Workers : Runs(v, u)'
  BY <1>1 DEF IInv, WorkersExact
<1>3. QED
  BY <1>2 DEF IInv, WorkersExact

-----------------------------------------------------------------------------
(* A thread is created, and the test of a worker's loop: no task moves. *)
LEMMA SpawnPreserves ==
  ASSUME IInv, NEW w \in Workers, Spawn(w)
  PROVE  IInv'
<1>1. QP!IInv' /\ UNCHANGED <<mQueue, asking, out>>
  BY QueueAlone DEF Spawn, IInv
<1>2. PoolTyped'
  BY DEF Spawn, IInv, PoolTyped, Stages
<1>3. /\ pc[w] = "none" /\ \A v \in Workers : pc'[v] = IF v = w THEN "test" ELSE pc[v]
      /\ UNCHANGED <<state, owner>> /\ stage = "building" /\ stage' # "gone"
  BY DEF Spawn, IInv, PoolTyped
<1>4. WorkersExact'
  BY <1>1, <1>3, WorkersStay
<1>5. AskersPop'
  <2>1. w \notin asking
    BY <1>3 DEF IInv, AskersPop
  <2>2. QED
    BY <1>1, <1>3, <2>1, QueueTyped DEF IInv, AskersPop
<1>6. QueueExact' /\ OwnedSubmitted' /\ EndExact'
  BY <1>1, <1>3 DEF IInv, QueueExact, OwnedSubmitted, EndExact
<1>7. QED
  BY <1>1, <1>2, <1>4, <1>5, <1>6 DEF IInv

LEMMA TestPreserves ==
  ASSUME IInv, NEW w \in Workers, Test(w)
  PROVE  IInv'
<1>1. QP!IInv' /\ UNCHANGED <<mQueue, asking, out>>
  BY QueueAlone DEF Test, IInv
<1>2. PoolTyped'
  BY DEF Test, IInv, PoolTyped
<1>3. /\ pc[w] = "test" /\ pc'[w] \in {"exit", "pop"}
      /\ \A v \in Workers : v # w => pc'[v] = pc[v]
      /\ UNCHANGED <<stage, state, owner>>
  BY DEF Test, IInv, PoolTyped
<1>4. WorkersExact'
  BY <1>1, <1>3, WorkersStay
<1>5. AskersPop'
  <2>1. w \notin asking
    BY <1>3 DEF IInv, AskersPop
  <2>2. QED
    BY <1>1, <1>3, <2>1, QueueTyped DEF IInv, AskersPop
<1>6. EndExact'
  BY <1>1, <1>3 DEF IInv, EndExact
<1>7. QueueExact' /\ OwnedSubmitted'
  BY <1>1, <1>3 DEF IInv, QueueExact, OwnedSubmitted
<1>8. QED
  BY <1>1, <1>2, <1>4, <1>5, <1>6, <1>7 DEF IInv

(* waitPop: the head of the queue is queued, so nobody runs it yet. *)
LEMMA PopPreserves ==
  ASSUME IInv, NEW w \in Workers, Pop(w)
  PROVE  IInv'
<1>1. /\ QP!IInv' /\ (Sleeps(w) \/ Takes(w) \/ Refused(w))
      /\ pc[w] = "pop" /\ UNCHANGED <<mbDone, numThreads, stage, owner, wait>>
  BY WaitPopEffect DEF Pop, IInv
<1>2. /\ mQueue \in Seq(Tasks) /\ asking \subseteq Workers
      /\ out \in [Workers -> Tasks \cup {Nothing}]
  BY QueueTyped DEF IInv
<1>3. stage # "gone"
  BY <1>1 DEF IInv, EndExact
<1>4. CASE Takes(w)
  <2> DEFINE t == Head(mQueue)
  <2>1. t \in Tasks /\ t # Nothing /\ out'[w] = t /\ w \notin asking'
    BY <1>2, <1>4, QueueConstants DEF Takes
  <2>2. pc' = [pc EXCEPT ![w] = "run"] /\ state' = [state EXCEPT ![t] = "running"]
    BY <2>1 DEF Pop
  <2>3. state[t] = "queued" /\ QueueExact'
    BY <1>4, <2>2, QueueShrinks DEF Takes
  <2>4. WorkersExact'
    BY <1>1, <1>4, <2>1, <2>2, <2>3, WorkerTakes DEF Takes
  <2>5. PoolTyped'
    BY <1>1, <2>1, <2>2 DEF IInv, PoolTyped, TaskStates
  <2>6. AskersPop'
    BY <1>2, <1>4, <2>2 DEF IInv, PoolTyped, AskersPop, Takes
  <2>7. OwnedSubmitted' /\ EndExact'
    BY <1>1, <1>3, <2>1, <2>2 DEF IInv, PoolTyped, OwnedSubmitted, EndExact
  <2>8. QED
    BY <1>1, <2>3, <2>4, <2>5, <2>6, <2>7 DEF IInv
<1>5. CASE Sleeps(w) \/ Refused(w)
  <2>1. /\ UNCHANGED <<mQueue, state>>
        /\ \A v \in Workers : v # w => pc'[v] = pc[v] /\ out'[v] = out[v]
        /\ IF w \in asking' THEN pc'[w] = "pop" ELSE pc'[w] = "test"
        /\ asking' \subseteq asking \cup {w}
        /\ pc' \in [Workers -> {"none", "test", "pop", "run", "exit"}]
    <3>1. CASE Sleeps(w)
      BY <1>2, <1>5, <3>1 DEF Pop, Sleeps, IInv, PoolTyped
    <3>2. CASE Refused(w)
      BY <1>2, <1>5, <3>2 DEF Pop, Refused, IInv, PoolTyped
    <3>3. QED
      BY <1>5, <3>1, <3>2
  <2>2. WorkersExact'
    BY <1>1, <2>1, WorkersStay
  <2>3. PoolTyped'
    BY <1>1, <2>1 DEF IInv, PoolTyped
  <2>4. AskersPop'
    BY <1>2, <2>1 DEF IInv, AskersPop
  <2>5. QueueExact' /\ OwnedSubmitted' /\ EndExact'
    BY <1>1, <1>3, <2>1 DEF IInv, QueueExact, OwnedSubmitted, EndExact
  <2>6. QED
    BY <1>1, <2>2, <2>3, <2>4, <2>5 DEF IInv
<1>6. QED
  BY <1>1, <1>4, <1>5

LEMMA WakePreserves ==
  ASSUME IInv, NEW w \in Workers, Wake(w)
  PROVE  IInv'
<1>1. /\ QP!IInv' /\ UNCHANGED <<mQueue, asking, out>>
      /\ UNCHANGED <<mbDone, numThreads, pc, stage, state, owner, wait>>
  BY OtherQueueEffects DEF Wake, IInv
<1>2. QED
  BY <1>1 DEF IInv, PoolTyped, QueueExact, WorkersExact, Runs, AskersPop,
              OwnedSubmitted, EndExact

(* execute() returns. *)
LEMMA FinishPreserves ==
  ASSUME IInv, NEW w \in Workers, NEW o \in {"value", "threw"}, Finish(w, o)
  PROVE  IInv'
<1>1. QP!IInv' /\ UNCHANGED <<mQueue, asking, out>>
  BY QueueAlone DEF Finish, IInv
<1>2. /\ pc[w] = "run" /\ pc' = [pc EXCEPT ![w] = "test"]
      /\ state' = [state EXCEPT ![out[w]] = o]
      /\ UNCHANGED <<mbDone, numThreads, stage, owner, wait>>
  BY DEF Finish
<1>3. out[w] \in Tasks /\ state[out[w]] = "running"
  BY <1>2 DEF IInv, WorkersExact, Runs
<1>4. \A u \in Tasks : state'[u] = IF u = out[w] THEN o ELSE state[u]
  BY <1>2 DEF IInv, PoolTyped
<1>5. WorkersExact'
  BY <1>1, <1>2, WorkerIsDone
<1>6. PoolTyped'
  BY <1>2 DEF IInv, PoolTyped, TaskStates, Settled
<1>7. AskersPop'
  <2>1. w \notin asking
    BY <1>2 DEF IInv, AskersPop
  <2>2. QED
    BY <1>1, <1>2, <2>1, QueueTyped DEF IInv, PoolTyped, AskersPop
<1>8. QueueExact'
  BY <1>1, <1>3, <1>4 DEF IInv, QueueExact
<1>9. OwnedSubmitted' /\ EndExact'
  <2>1. stage # "gone"
    BY <1>2 DEF IInv, EndExact
  <2>2. QED
    BY <1>2, <1>4, <2>1 DEF IInv, OwnedSubmitted, EndExact
<1>10. QED
  BY <1>1, <1>5, <1>6, <1>7, <1>8, <1>9 DEF IInv

(* A task is submitted, with a future for whoever does it or without. *)
LEMMA SubmitPreserves ==
  ASSUME IInv, NEW a \in Actors, NEW t \in Tasks,
         run(a, t) \/ run_loose(a, t), stage # "gone"
  PROVE  IInv'
<1>1. /\ QP!IInv' /\ mQueue' = Append(mQueue, t) /\ UNCHANGED <<asking, out>>
      /\ state[t] = "new" /\ state' = [state EXCEPT ![t] = "queued"]
      /\ UNCHANGED <<mbDone, numThreads, pc, stage, wait>>
      /\ owner' = [owner EXCEPT ![t] = a] \/ UNCHANGED owner
  BY PushEffect DEF run, run_loose, Submit, IInv
<1>2. \A u \in Tasks : state'[u] = IF u = t THEN "queued" ELSE state[u]
  BY <1>1 DEF IInv, PoolTyped
<1>3. QueueExact'
  BY <1>1, QueueGrows
<1>4. WorkersExact'
  BY <1>1, <1>2, WorkersStay
<1>5. PoolTyped'
  BY <1>1 DEF IInv, PoolTyped, TaskStates
<1>6. AskersPop'
  BY <1>1 DEF IInv, AskersPop
<1>7. OwnedSubmitted' /\ EndExact'
  BY <1>1, <1>2 DEF IInv, PoolTyped, OwnedSubmitted, EndExact
<1>8. QED
  BY <1>1, <1>3, <1>4, <1>5, <1>6, <1>7 DEF IInv

(* No task runs in a pool that is gone. *)
LEMMA RunningBeforeTheEnd ==
  ASSUME IInv, NEW a \in Tasks, state[a] = "running"
  PROVE  stage # "gone"
BY DEF IInv, WorkersExact, Runs, EndExact

(* Somebody waits for a future, and gets what it waited for. *)
LEMMA BlockPreserves ==
  ASSUME IInv, NEW a \in Actors, NEW t \in Tasks, NEW how \in {"get", "drop"},
         Block(a, how, t)
  PROVE  IInv'
<1>1. /\ QP!IInv' /\ UNCHANGED <<mQueue, asking, out>>
      /\ wait' = [wait EXCEPT ![a] = <<how, t>>]
      /\ UNCHANGED <<mbDone, numThreads, pc, stage, state, owner>>
  BY QueueAlone DEF Block, IInv
<1>2. PoolTyped'
  BY <1>1 DEF IInv, PoolTyped
<1>3. QED
  BY <1>1, <1>2 DEF IInv, QueueExact, WorkersExact, Runs, AskersPop,
                    OwnedSubmitted, EndExact

LEMMA ResumePreserves ==
  ASSUME IInv, NEW a \in Actors, Resume(a)
  PROVE  IInv'
<1>1. PICK t \in Tasks, how \in {"get", "drop"} :
        /\ wait' = [wait EXCEPT ![a] = Nothing]
        /\ owner' = [owner EXCEPT ![t] = Nothing]
        /\ stage' = IF how = "drop" /\ state[t] # "value" THEN "terminated"
                    ELSE stage
        /\ UNCHANGED <<queueVars, mbDone, numThreads, pc, state>>
  BY DEF Resume
<1>2. QP!IInv' /\ UNCHANGED <<mQueue, asking, out>>
  BY <1>1, QueueAlone DEF IInv
<1>3. PoolTyped'
  BY <1>1 DEF IInv, PoolTyped, Stages
<1>4. OwnedSubmitted' /\ EndExact'
  BY <1>1, <1>2 DEF IInv, PoolTyped, OwnedSubmitted, EndExact
<1>5. QueueExact' /\ WorkersExact' /\ AskersPop'
  BY <1>1, <1>2 DEF IInv, QueueExact, WorkersExact, Runs, AskersPop
<1>6. QED
  BY <1>2, <1>3, <1>4, <1>5 DEF IInv

(* The end of the pool: destroy sets mbDone, invalidates the queue, joins  *)
(* the workers and drops what is left.                                     *)
LEMMA BeginDestroyPreserves ==
  ASSUME IInv, BeginDestroy, stage \in {"building", "up"}
  PROVE  IInv'
<1>1. QP!IInv' /\ UNCHANGED <<mQueue, asking, out>>
  BY QueueAlone DEF BeginDestroy, IInv
<1>2. PoolTyped'
  BY DEF BeginDestroy, IInv, PoolTyped, Stages
<1>3. EndExact'
  BY DEF BeginDestroy, IInv, EndExact
<1>4. QED
  BY <1>1, <1>2, <1>3 DEF BeginDestroy, IInv, QueueExact, WorkersExact, Runs,
                          AskersPop, OwnedSubmitted

LEMMA InvalidatePreserves ==
  ASSUME IInv, Invalidate
  PROVE  IInv'
<1>1. QP!IInv' /\ UNCHANGED <<mQueue, asking, out>>
  BY OtherQueueEffects DEF Invalidate, IInv
<1>2. PoolTyped'
  BY DEF Invalidate, IInv, PoolTyped, Stages
<1>3. EndExact'
  BY DEF Invalidate, IInv, EndExact
<1>4. QED
  BY <1>1, <1>2, <1>3 DEF Invalidate, IInv, QueueExact, WorkersExact, Runs,
                          AskersPop, OwnedSubmitted

LEMMA JoinPreserves ==
  ASSUME IInv, Join
  PROVE  IInv'
<1>1. /\ QP!IInv' /\ mQueue' = <<>> /\ UNCHANGED <<asking, out>>
      /\ stage = "join" /\ stage' = "gone"
      /\ UNCHANGED <<mbDone, numThreads, pc, owner, wait>>
  BY OtherQueueEffects DEF Join, IInv
<1>2. \A w \in Workers : pc[w] \in {"none", "exit"}
  BY DEF Join, Created
<1>3. /\ state' \in [Tasks -> TaskStates]
      /\ \A t \in Tasks : state'[t] = IF state[t] = "queued" THEN "broken"
                                      ELSE state[t]
  BY DEF Join, Dropped, IInv, PoolTyped, TaskStates, Settled
<1>4. PoolTyped'
  BY <1>1, <1>3 DEF IInv, PoolTyped, Stages
<1>5. QueueExact'
  BY <1>1, <1>3 DEF QueueExact
<1>6. WorkersExact'
  BY <1>1, <1>3, WorkersStay
<1>7. AskersPop' /\ OwnedSubmitted' /\ EndExact'
  BY <1>1, <1>2, <1>3 DEF IInv, AskersPop, OwnedSubmitted, EndExact
<1>8. QED
  BY <1>1, <1>4, <1>5, <1>6, <1>7 DEF IInv

LEMMA NextPreserves == IInv /\ [Next]_vars => IInv'
<1> SUFFICES ASSUME IInv, [Next]_vars PROVE IInv'
  OBVIOUS
<1>1. CASE UNCHANGED vars
  <2>1. QP!IInv' /\ UNCHANGED <<mQueue, asking, out>>
    BY <1>1, QueueAlone DEF vars, IInv
  <2>2. QED
    BY <1>1, <2>1 DEF vars, IInv, PoolTyped, QueueExact, WorkersExact, Runs,
                      AskersPop, OwnedSubmitted, EndExact
<1>2. ASSUME NEW w \in Workers,
             \/ Spawn(w) \/ Test(w) \/ Pop(w) \/ Wake(w)
             \/ Finish(w, "value") \/ Finish(w, "threw")
      PROVE  IInv'
  BY <1>2, SpawnPreserves, TestPreserves, PopPreserves, WakePreserves,
     FinishPreserves
<1>3. ASSUME NEW c \in Clients, NEW t \in Tasks, Run(c, t) \/ RunLoose(c, t)
      PROVE  IInv'
  BY <1>3, SubmitPreserves DEF Run, RunLoose, Actors
<1>4. ASSUME NEW a \in Tasks, NEW t \in Tasks, RunNested(a, t)
      PROVE  IInv'
  BY <1>4, SubmitPreserves, RunningBeforeTheEnd DEF RunNested, Actors
<1>5. ASSUME NEW a \in Actors, NEW t \in Tasks, Get(a, t) \/ Drop(a, t)
      PROVE  IInv'
  BY <1>5, BlockPreserves DEF Get, Drop
<1>6. ASSUME NEW a \in Actors, Resume(a) PROVE IInv'
  BY <1>6, ResumePreserves
<1>7. CASE SpawnFails \/ \E c \in Clients : Destructor(c)
  BY <1>7, BeginDestroyPreserves DEF SpawnFails, Destructor
<1>8. CASE Invalidate \/ Join
  BY <1>8, InvalidatePreserves, JoinPreserves
<1>9. QED
  BY <1>1, <1>2, <1>3, <1>4, <1>5, <1>6, <1>7, <1>8 DEF Next, Step

LEMMA PoolInvariant == Spec => []IInv
BY InitEstablishes, NextPreserves, PTL DEF Spec

-----------------------------------------------------------------------------
(* Whatever the tasks do and whenever the pool is destroyed, a worker      *)
(* executes nothing but a task, and only a worker inside waitPop sleeps.   *)
THEOREM PoolTypes == Spec => []TypeOK
<1>1. IInv => TypeOK
  BY QueueTyped DEF IInv, PoolTyped, Stages, TaskStates, TypeOK
<1>2. QED
  BY <1>1, PoolInvariant, PTL

(* The number of places is the number of elements of a set of at most one. *)
LEMMA OneOrNone ==
  ASSUME NEW S, \A x, y \in S : x = y
  PROVE  Cardinality(S) = IF S = {} THEN 0 ELSE 1
<1>1. CASE S = {}
  BY <1>1, FS_EmptySet
<1>2. CASE S # {}
  <2>1. PICK x : S = {x}
    BY <1>2
  <2>2. QED
    BY <1>2, <2>1, FS_Singleton
<1>3. QED
  BY <1>1, <1>2

(* A queued task is in the queue once, a running one has one worker, and   *)
(* no other task is at either place: none is lost or run twice.            *)
THEOREM NoTaskLostOrRunTwice == Spec => []TasksInOnePlace
<1>1. ASSUME IInv, NEW t \in Tasks
      PROVE  /\ Cardinality({i \in DOMAIN mQueue : mQueue[i] = t})
                  = (IF state[t] = "queued" THEN 1 ELSE 0)
             /\ Cardinality({w \in Workers : pc[w] = "run" /\ out[w] = t})
                  = (IF state[t] = "running" THEN 1 ELSE 0)
  <2> DEFINE places == {i \in DOMAIN mQueue : mQueue[i] = t}
             runners == {w \in Workers : pc[w] = "run" /\ out[w] = t}
  <2>1. /\ \A i, j \in places : i = j
        /\ places = {} <=> state[t] # "queued"
    BY <1>1 DEF IInv, QueueExact
  <2>2. /\ \A v, w \in runners : v = w
        /\ runners = {} <=> state[t] # "running"
    BY <1>1 DEF IInv, WorkersExact, Runs
  <2> HIDE DEF places, runners
  <2>3. /\ Cardinality(places) = IF places = {} THEN 0 ELSE 1
        /\ Cardinality(runners) = IF runners = {} THEN 0 ELSE 1
    BY <2>1, <2>2, OneOrNone
  <2>4. /\ Cardinality(places) = (IF state[t] = "queued" THEN 1 ELSE 0)
        /\ Cardinality(runners) = (IF state[t] = "running" THEN 1 ELSE 0)
    BY <2>1, <2>2, <2>3
  <2>5. QED
    BY <2>4 DEF places, runners
<1>2. IInv => TasksInOnePlace
  BY <1>1 DEF TasksInOnePlace
<1>3. QED
  BY <1>2, PoolInvariant, PTL

(* When the destructor has returned no worker can touch the pool and every *)
(* future that is left is settled; a promise is broken only by that end.   *)
THEOREM PoolEndsCleanly == Spec => []GoneCleanly
<1>1. ASSUME IInv, stage = "gone"
      PROVE  /\ \A w \in Workers : pc[w] \in {"none", "exit"}
             /\ asking = {}
             /\ \A t \in Tasks : owner[t] # Nothing => state[t] \in Settled
  <2>1. mQueue = <<>> /\ \A w \in Workers : pc[w] \in {"none", "exit"}
    BY <1>1 DEF IInv, EndExact
  <2>2. asking = {}
    BY <1>1, <2>1, QueueTyped DEF IInv, AskersPop
  <2>3. \A t \in Tasks : state[t] # "queued" /\ state[t] # "running"
    BY <1>1, <2>1 DEF IInv, QueueExact, WorkersExact, Runs
  <2>4. \A t \in Tasks : owner[t] # Nothing => state[t] \in Settled
    BY <1>1, <2>3 DEF IInv, PoolTyped, TaskStates, OwnedSubmitted
  <2>5. QED
    BY <2>1, <2>2, <2>4
<1>2. IInv => GoneCleanly
  BY <1>1 DEF IInv, EndExact, GoneCleanly
<1>3. QED
  BY <1>2, PoolInvariant, PTL

-----------------------------------------------------------------------------
(* What the steps do to a task, one kind of step after the other. *)
LEMMA PopCourse ==
  ASSUME IInv, NEW w \in Workers, Pop(w), NEW t \in Tasks, state'[t] # state[t]
  PROVE  Course(t)
<1>1. Sleeps(w) \/ Takes(w) \/ Refused(w)
  BY WaitPopEffect DEF Pop, IInv
<1>2. /\ mQueue \in Seq(Tasks) /\ asking \subseteq Workers
      /\ out \in [Workers -> Tasks \cup {Nothing}]
  BY QueueTyped DEF IInv
<1>3. Takes(w)
  BY <1>1, <1>2 DEF Pop, Sleeps, Refused
<1>4. /\ Head(mQueue) \in Tasks /\ Head(mQueue) # Nothing /\ Head(mQueue) = mQueue[1]
      /\ out'[w] = Head(mQueue) /\ w \notin asking'
  BY <1>2, <1>3, QueueConstants DEF Takes
<1>5. state' = [state EXCEPT ![Head(mQueue)] = "running"]
  BY <1>4 DEF Pop
<1>6. state[Head(mQueue)] = "queued"
  BY <1>3, <1>5, QueueShrinks DEF Takes
<1>7. QED
  BY <1>4, <1>5, <1>6 DEF IInv, PoolTyped, Course

LEMMA FinishCourse ==
  ASSUME IInv, NEW w \in Workers, NEW o \in {"value", "threw"}, Finish(w, o),
         NEW t \in Tasks, state'[t] # state[t]
  PROVE  Course(t)
<1>1. pc[w] = "run" /\ state' = [state EXCEPT ![out[w]] = o]
  BY DEF Finish
<1>2. out[w] \in Tasks /\ state[out[w]] = "running"
  BY <1>1 DEF IInv, WorkersExact, Runs
<1>3. QED
  BY <1>1, <1>2 DEF IInv, PoolTyped, Course

LEMMA NextCourse ==
  ASSUME IInv, Next, NEW t \in Tasks, state'[t] # state[t]
  PROVE  Course(t)
<1>1. ASSUME NEW u \in Tasks, Submit(u) PROVE Course(t)
  BY <1>1 DEF Submit, IInv, PoolTyped, Course
<1>2. CASE Join
  BY <1>2 DEF Join, Dropped, IInv, PoolTyped, Course
<1>3. ASSUME NEW w \in Workers, Spawn(w) \/ Test(w) \/ Wake(w) PROVE FALSE
  BY <1>3 DEF Spawn, Test, Wake
<1>4. ASSUME NEW a, NEW u, Get(a, u) \/ Drop(a, u) \/ Resume(a) PROVE FALSE
  BY <1>4 DEF Get, Drop, Block, Resume
<1>5. ASSUME SpawnFails \/ Invalidate \/ \E c \in Clients : Destructor(c) PROVE FALSE
  BY <1>5 DEF SpawnFails, Invalidate, Destructor, BeginDestroy
<1>6. ASSUME NEW c, NEW u \in Tasks, Run(c, u) \/ RunLoose(c, u) \/ RunNested(c, u)
      PROVE  Course(t)
  BY <1>1, <1>6 DEF Run, RunLoose, RunNested, run, run_loose
<1>7. QED
  BY <1>2, <1>3, <1>4, <1>5, <1>6, PopCourse, FinishCourse DEF Next, Step

(* A promise is set once, whatever clients, tasks and the destructor do: a *)
(* task goes from submitted over taken, in the order of submission, to its *)
(* outcome, or its promise is broken while it is still in the queue.       *)
THEOREM PromisesSetOnce == Spec => TasksTakeTheirCourse
<1>1. IInv /\ [Next]_vars => [\A t \in Tasks : state'[t] # state[t] => Course(t)]_vars
  BY NextCourse
<1>2. QED
  BY <1>1, PoolInvariant, PTL DEF Spec, TasksTakeTheirCourse
=============================================================================
