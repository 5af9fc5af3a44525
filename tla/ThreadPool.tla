------------------------------ MODULE ThreadPool ------------------------------
(***************************************************************************)
(* evil::ThreadPool (evil/thread/thread-pool.h): worker threads that take  *)
(* tasks from a ThreadQueue, the futures of the tasks, and the end of the  *)
(* pool.  The queue is an instance of ThreadQueue: every step that uses it *)
(* is a step of that module.                                               *)
(*                                                                         *)
(* Tasks are submitted by clients (threads outside the pool) and by other  *)
(* tasks while they run; both may wait for the futures they were given.  A *)
(* TaskFuture is a local object of the function that was given it, so a    *)
(* task waits for its futures before it ends (~TaskFuture).                *)
(*                                                                         *)
(* A definition named X_Y is X with the slip Y; nothing uses it.           *)
(***************************************************************************)
EXTENDS Integers, Sequences, FiniteSets

CONSTANTS
  Clients,        \* threads that are not the pool's own
  Tasks,          \* each is submitted at most once
  Workers,        \* indices of mThreads: 1..n for some n
  HardwareConcurrency,  \* what std::thread::hardware_concurrency() may say
  ExplicitThreads,      \* numbers of threads that programs ask for, 0 included
  Nothing

(* The unsigned subtraction is done on at least 2. *)
DefaultThreads(hardware) == (IF hardware > 2 THEN hardware ELSE 2) - 1

ASSUME PoolAssumption ==
  /\ IsFiniteSet(Tasks) /\ IsFiniteSet(Workers)
  /\ HardwareConcurrency \subseteq Nat
  /\ \A h \in HardwareConcurrency : 1..DefaultThreads(h) \subseteq Workers
  /\ \A n \in ExplicitThreads : n \in Nat /\ 1..n \subseteq Workers
  /\ Nothing \notin Tasks \cup Clients
  /\ Clients \cap Tasks = {}

VARIABLES
  mQueue, mValid, asking, mCondition, out,      \* mWorkQueue
  mbDone,
  numThreads,     \* the constructor's argument
  pc,             \* of each worker
  stage,          \* of the pool: from its constructor to its destructor
  state,          \* of each task, and so of the promise behind its future
  owner,          \* of each task: who has its valid future
  wait            \* of each client and task: the future it is blocked on

queueVars == <<mQueue, mValid, asking, mCondition, out>>
vars == <<queueVars, mbDone, numThreads, pc, stage, state, owner, wait>>

Queue == INSTANCE ThreadQueue
           WITH Threads <- Workers, Values <- Tasks, MaxLength <- Cardinality(Tasks)

Actors  == Clients \cup Tasks
Settled == {"value", "threw", "broken"}
Created == {w \in Workers : pc[w] # "none"}

Init == /\ Queue!Init
        /\ mbDone = FALSE
        /\ numThreads \in {DefaultThreads(h) : h \in HardwareConcurrency} \cup ExplicitThreads
        /\ pc = [w \in Workers |-> "none"]
        /\ stage = IF numThreads = 0 THEN "up" ELSE "building"
        /\ state = [t \in Tasks |-> "new"]
        /\ owner = [t \in Tasks |-> Nothing]
        /\ wait = [a \in Actors |-> Nothing]

-----------------------------------------------------------------------------
(* The constructor starts the threads one by one; each begins at once.     *)
(* Nothing rejects a pool of no threads: it is up when it is built.        *)
Spawn(w) ==
  /\ stage = "building" /\ pc[w] = "none" /\ w <= numThreads
  /\ \A v \in Workers : v < w => pc[v] # "none"
  /\ pc' = [pc EXCEPT ![w] = "test"]
  /\ stage' = IF w = numThreads THEN "up" ELSE stage
  /\ UNCHANGED <<queueVars, mbDone, numThreads, state, owner, wait>>

BeginDestroy == /\ mbDone' = TRUE
                /\ stage' = "invalidate"
                /\ UNCHANGED <<queueVars, numThreads, pc, state, owner, wait>>

(* emplace_back throws: the threads there are are joined. *)
SpawnFails == stage = "building" /\ BeginDestroy

(* ~ThreadPool, called by a client. *)
Destructor(c) == stage = "up" /\ wait[c] = Nothing /\ BeginDestroy

Invalidate_AllButWaiters ==
  /\ stage = "invalidate"
  /\ mValid' = FALSE
  /\ stage' = "join"
  /\ UNCHANGED <<mQueue, asking, mCondition, out>>
  /\ UNCHANGED <<mbDone, numThreads, pc, state, owner, wait>>

Invalidate == /\ stage = "invalidate"
              /\ Queue!Invalidate
              /\ stage' = "join"
              /\ UNCHANGED <<mbDone, numThreads, pc, state, owner, wait>>

Dropped == {t \in Tasks : state[t] = "queued"}

Join_NoJoin ==
  /\ stage = "join"
  /\ Queue!Clear
  /\ state' = [t \in Tasks |-> IF t \in Dropped THEN "broken" ELSE state[t]]
  /\ stage' = "gone"
  /\ UNCHANGED <<mbDone, numThreads, pc, owner, wait>>

(* All threads are joined, and then the tasks that are left are destroyed, *)
(* which breaks their promises.  Nobody else has access to the queue then. *)
Join ==
  /\ stage = "join"
  /\ \A w \in Created : pc[w] = "exit"
  /\ Queue!Clear
  /\ state' = [t \in Tasks |-> IF t \in Dropped THEN "broken" ELSE state[t]]
  /\ stage' = "gone"
  /\ UNCHANGED <<mbDone, numThreads, pc, owner, wait>>

-----------------------------------------------------------------------------
(* The task is packed and pushed; whether there is a future differs. *)
Submit(t) == /\ state[t] = "new"
             /\ Queue!Push(t)
             /\ state' = [state EXCEPT ![t] = "queued"]
             /\ UNCHANGED <<mbDone, numThreads, pc, stage, wait>>

run(a, t)       == Submit(t) /\ owner' = [owner EXCEPT ![t] = a]
run_loose(a, t) == Submit(t) /\ UNCHANGED owner

(* thread_pool::run and run_loose, by a client: the pool has to exist. *)
Run(c, t)      == stage = "up" /\ wait[c] = Nothing /\ run(c, t)
RunLoose(c, t) == stage = "up" /\ wait[c] = Nothing /\ run_loose(c, t)

(* The same from a running task, at any time. *)
RunNested(a, t) == /\ state[a] = "running" /\ wait[a] = Nothing
                   /\ run(a, t) \/ run_loose(a, t)

Block(a, how, t) ==
  /\ owner[t] = a /\ wait[a] = Nothing
  /\ a \in Tasks => state[a] = "running"
  /\ wait' = [wait EXCEPT ![a] = <<how, t>>]
  /\ UNCHANGED <<queueVars, mbDone, numThreads, pc, stage, state, owner>>

(* TaskFuture::get, and ~TaskFuture, which calls get() if it is valid. *)
Get(a, t)  == Block(a, "get", t)
Drop(a, t) == Block(a, "drop", t)

(* get() returns or throws; out of a destructor that ends the program. *)
Resume(a) ==
  \E t \in Tasks, how \in {"get", "drop"} :
    /\ wait[a] = <<how, t>> /\ state[t] \in Settled
    /\ wait' = [wait EXCEPT ![a] = Nothing]
    /\ owner' = [owner EXCEPT ![t] = Nothing]
    /\ stage' = IF how = "drop" /\ state[t] # "value" THEN "terminated" ELSE stage
    /\ UNCHANGED <<queueVars, mbDone, numThreads, pc, state>>

-----------------------------------------------------------------------------
(* worker: the test of the while loop. *)
Test(w) == /\ pc[w] = "test"
           /\ pc' = [pc EXCEPT ![w] = IF mbDone THEN "exit" ELSE "pop"]
           /\ UNCHANGED <<queueVars, mbDone, numThreads, stage, state, owner, wait>>

(* worker: waitPop, and on to the task if there is one. *)
Pop(w) ==
  /\ pc[w] = "pop"
  /\ Queue!WaitPop(w)
  /\ LET got == w \notin asking' /\ out'[w] # Nothing
     IN /\ pc' = [pc EXCEPT ![w] = IF got THEN "run"
                                   ELSE IF w \in asking' THEN "pop" ELSE "test"]
        /\ state' = IF got THEN [state EXCEPT ![out'[w]] = "running"] ELSE state
  /\ UNCHANGED <<mbDone, numThreads, stage, owner, wait>>

Wake(w) == Queue!SpuriousWake(w)
           /\ UNCHANGED <<mbDone, numThreads, pc, stage, state, owner, wait>>

(* execute() returns: the task has stored a value or an exception, and the *)
(* futures it had are gone.                                                *)
Finish(w, outcome) ==
  LET t == out[w]
  IN /\ pc[w] = "run" /\ wait[t] = Nothing
     /\ \A u \in Tasks : owner[u] # t
     /\ state' = [state EXCEPT ![t] = outcome]
     /\ pc' = [pc EXCEPT ![w] = "test"]
     /\ UNCHANGED <<queueVars, mbDone, numThreads, stage, owner, wait>>

-----------------------------------------------------------------------------
Step == \/ \E w \in Workers : \/ Spawn(w) \/ Test(w) \/ Pop(w) \/ Wake(w)
                              \/ Finish(w, "value") \/ Finish(w, "threw")
        \/ \E c \in Clients, t \in Tasks : Run(c, t) \/ RunLoose(c, t)
        \/ \E a, t \in Tasks : RunNested(a, t)
        \/ \E a \in Actors, t \in Tasks : Get(a, t) \/ Drop(a, t)
        \/ \E a \in Actors : Resume(a)
        \/ \E c \in Clients : Destructor(c)
        \/ SpawnFails \/ Invalidate \/ Join

Alive == stage # "terminated"
Next  == Alive /\ Step

(* Threads run, a woken thread gets the mutex, and the functions of tasks  *)
(* return, which destroys their futures.  Clients need not do anything.    *)
Fairness ==
  /\ \A w \in Workers : WF_vars(Alive /\ (Spawn(w) \/ Test(w) \/ Pop(w) \/
                                       Finish(w, "value") \/ Finish(w, "threw")))
  /\ \A a \in Tasks : WF_vars(Alive /\ (Resume(a) \/ \E t \in Tasks : Drop(a, t)))
  /\ WF_vars(Alive /\ (Invalidate \/ Join))

Spec == Init /\ [][Next]_vars /\ Fairness

-----------------------------------------------------------------------------
(* The shape of the state. *)
TypeOK ==
  /\ Queue!TypeOK
  /\ mbDone \in BOOLEAN
  /\ numThreads \in Nat
  /\ pc \in [Workers -> {"none", "test", "pop", "run", "exit"}]
  /\ stage \in {"building", "up", "invalidate", "join", "gone", "terminated"}
  /\ state \in [Tasks -> {"new", "queued", "running"} \cup Settled]
  /\ owner \in [Tasks -> Actors \cup {Nothing}]
  /\ wait \in [Actors -> ({"get", "drop"} \X Tasks) \cup {Nothing}]

(* No task is lost, run twice or run after it has been dropped: one that   *)
(* is queued is in the queue once, one that runs is run by one worker, and *)
(* no other task is at either place.                                       *)
TasksInOnePlace ==
  \A t \in Tasks :
    /\ Cardinality({i \in DOMAIN mQueue : mQueue[i] = t})
         = (IF state[t] = "queued" THEN 1 ELSE 0)
    /\ Cardinality({w \in Workers : pc[w] = "run" /\ out[w] = t})
         = (IF state[t] = "running" THEN 1 ELSE 0)

(* When the destructor has returned no worker is left that could touch the *)
(* pool, and every future that anybody still has is settled.  A promise is *)
(* broken only by the end of the pool: a task that a worker has taken is   *)
(* run, however late destroy comes.                                        *)
GoneCleanly ==
  /\ stage = "gone" =>
       /\ \A w \in Workers : pc[w] \in {"none", "exit"}
       /\ asking = {}
       /\ \A t \in Tasks : owner[t] # Nothing => state[t] \in Settled
  /\ (\E t \in Tasks : state[t] = "broken") => stage \in {"gone", "terminated"}

(* The course of a task, and so of its promise, which is set once: it is   *)
(* submitted, a worker takes it as the one that has waited longest and     *)
(* stores the outcome, or the end of the pool breaks the promise while the *)
(* task is still in the queue.  No step takes a task back or past a stage. *)
Course(t) ==
  \/ state[t] = "new"     /\ state'[t] = "queued"
  \/ state[t] = "queued"  /\ state'[t] = "running" /\ mQueue[1] = t
  \/ state[t] = "running" /\ state'[t] \in {"value", "threw"}
  \/ state[t] = "queued"  /\ state'[t] = "broken"  /\ stage = "join"

TasksTakeTheirCourse == [][\A t \in Tasks : state'[t] # state[t] => Course(t)]_vars

(* A worker whose task waits for a task that has not settled. *)
Held(w) == /\ pc[w] = "run" /\ wait[out[w]] # Nothing
           /\ state[wait[out[w]][2]] \notin Settled

(* As long as not every worker is held up by a task that waits for another *)
(* one, each task that has been submitted is started, or the pool ends.  A *)
(* pool of no threads has no such worker, and never starts a task.         *)
TasksStart ==
  []<>(\E w \in Created : ~Held(w)) =>
    \A t \in Tasks : state[t] = "queued" ~>
                      state[t] # "queued" \/ mbDone \/ ~Alive

(* The destructor returns, unless a running task waits for ever for one    *)
(* that is still in the queue: destroy joins before it clears.             *)
DestroyReturns ==
  []<>(\A w \in Workers : ~Held(w)) => (mbDone ~> stage = "gone" \/ ~Alive)
=============================================================================
