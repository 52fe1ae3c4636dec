----------------------------- MODULE ThreadPool -----------------------------
(***************************************************************************)
(* HTTP-server-cpp/src/thread_pool.cpp: a queue of jobs behind one mutex    *)
(* and one condition variable, n worker threads, and a destructor that lets  *)
(* them finish what is queued.                                              *)
(***************************************************************************)
EXTENDS Integers, Sequences, FiniteSets

CONSTANTS Producers,  \* threads that enqueue
          Workers,    \* the n threads of the pool
          NoJob,
          MaxJobs     \* bound: jobs a producer enqueues

\* Server makes a pool of four.  A pool without workers would run no job.
ASSUME WorkersAssumption == IsFiniteSet(Workers) /\ Workers # {} /\ IsFiniteSet(Producers)
ASSUME MaxJobsAssumption == MaxJobs \in Nat

\* The n-th job of a producer.
Jobs == Producers \X (1..MaxJobs)

ASSUME NoJobAssumption == NoJob \notin Jobs

VARIABLES
  tasks,   \* the queue
  stop,    \* the flag, guarded by mtx
  worker,  \* worker[w]: where worker w is in its loop
  task,    \* task[w]: the job it took
  pc,      \* pc[p]: where producer p is
  count,   \* count[p]: how many jobs p has asked to enqueue
  owner    \* where the thread that destroys the pool is

vars == <<tasks, stop, worker, task, pc, count, owner>>

\* The pool is meant to be a TaskPool, closed once the destructor returns.
Pool == INSTANCE TaskPool WITH queued <- tasks, running <- task, closed <- owner = "gone"

Init ==
  /\ tasks = <<>>
  /\ stop = FALSE
  /\ worker = [w \in Workers |-> "lock"]
  /\ task = [w \in Workers |-> NoJob]
  /\ pc = [p \in Producers |-> "idle"]
  /\ count = [p \in Producers |-> 0]
  /\ owner = "live"

\* The workers between lock and wait are the only threads that can be seen
\* holding mtx: a push, and the raising of stop, are over in one step.  The
\* operators whose names end in Bug are mistakes the code could have made in the
\* definition that follows them; no specification uses them.
NoMutexBug == TRUE
MutexFree == \A w \in Workers : worker[w] \notin {"pred", "block"}

\* The stop flag raised without the mutex, as Shard::~Shard of the cache does.
UnlockedStopBug == TRUE
StopMutexFree == MutexFree

Sleepers == {w \in Workers : worker[w] = "sleep"}
ToLock(W) == [w \in Workers |-> IF w \in W THEN "lock" ELSE worker[w]]

\* A pool that wakes a worker only when the queue was empty.
OnlyFirstBug(q) == Len(q) = 1
MustNotify(q) == TRUE

-----------------------------------------------------------------------------
\* enqueue: a push under the mutex, the notify after it.
Enqueue(p) ==
  /\ owner = "live"
  /\ pc[p] = "idle"
  /\ count[p] < MaxJobs
  /\ count' = [count EXCEPT ![p] = @ + 1]
  /\ pc' = [pc EXCEPT ![p] = "push"]
  /\ UNCHANGED <<tasks, stop, worker, task, owner>>

PushJob(p) ==
  /\ pc[p] = "push"
  /\ MutexFree
  /\ tasks' = Append(tasks, <<p, count[p]>>)
  /\ pc' = [pc EXCEPT ![p] = IF MustNotify(tasks') THEN "notify" ELSE "idle"]
  /\ UNCHANGED <<stop, worker, task, count, owner>>

\* notify_one wakes some worker that sleeps, and nobody if none does.
NotifyOne(p) ==
  /\ pc[p] = "notify"
  /\ IF Sleepers = {} THEN UNCHANGED worker ELSE \E w \in Sleepers : worker' = ToLock({w})
  /\ pc' = [pc EXCEPT ![p] = "idle"]
  /\ UNCHANGED <<tasks, stop, task, count, owner>>

-----------------------------------------------------------------------------
\* The loop of a worker.
Move(w, from, to) ==
  /\ worker[w] = from
  /\ worker' = [worker EXCEPT ![w] = to]
  /\ UNCHANGED <<tasks, stop, task, pc, count, owner>>

Lock(w) == MutexFree /\ Move(w, "lock", "pred")
PredFalse(w) == ~stop /\ tasks = <<>> /\ Move(w, "pred", "block")
Block(w) == Move(w, "block", "sleep")
SpuriousWake(w) == Move(w, "sleep", "lock")

\* The loop test of Shard::worker_loop of the cache: leave what is queued.
ExitAtOnceBug(w) == stop /\ Move(w, "pred", "done")
Exit(w) == stop /\ tasks = <<>> /\ Move(w, "pred", "done")

\* The bug takes the front of the queue and pops the back of it.
WrongEndBug(q) == SubSeq(q, 1, Len(q) - 1)
Pop(q) == Tail(q)

Take(w) ==
  /\ worker[w] = "pred"
  /\ tasks # <<>>
  /\ task' = [task EXCEPT ![w] = Head(tasks)]
  /\ tasks' = Pop(tasks)
  /\ worker' = [worker EXCEPT ![w] = "run"]
  /\ UNCHANGED <<stop, pc, count, owner>>

\* task() returns.
Finish(w) ==
  /\ worker[w] = "run"
  /\ worker' = [worker EXCEPT ![w] = "lock"]
  /\ task' = [task EXCEPT ![w] = NoJob]
  /\ UNCHANGED <<tasks, stop, pc, count, owner>>

-----------------------------------------------------------------------------
\* ~ThreadPool, once nobody is inside enqueue.
BeginDestroy ==
  /\ owner = "live"
  /\ \A p \in Producers : pc[p] = "idle"
  /\ owner' = "stop"
  /\ UNCHANGED <<tasks, stop, worker, task, pc, count>>

RaiseStop ==
  /\ owner = "stop"
  /\ StopMutexFree
  /\ stop' = TRUE
  /\ owner' = "notify"
  /\ UNCHANGED <<tasks, worker, task, pc, count>>

NotifyAll ==
  /\ owner = "notify"
  /\ worker' = ToLock(Sleepers)
  /\ owner' = "join"
  /\ UNCHANGED <<tasks, stop, task, pc, count>>

JoinAll ==
  /\ owner = "join"
  /\ \A w \in Workers : worker[w] = "done"
  /\ owner' = "gone"
  /\ UNCHANGED <<tasks, stop, worker, task, pc, count>>

-----------------------------------------------------------------------------
ProducerStep(p) == PushJob(p) \/ NotifyOne(p)
WorkerStep(w) == Lock(w) \/ PredFalse(w) \/ Block(w) \/ Exit(w) \/ Take(w) \/ Finish(w)
OwnerStep == RaiseStop \/ NotifyAll \/ JoinAll

Next == \/ \E p \in Producers : Enqueue(p) \/ ProducerStep(p)
        \/ \E w \in Workers : WorkerStep(w) \/ SpuriousWake(w)
        \/ BeginDestroy \/ OwnerStep

\* Threads are scheduled, jobs return (handle_client does not loop for ever),
\* and whoever keeps asking for the mutex gets it.
Fairness == /\ \A p \in Producers : WF_vars(NotifyOne(p)) /\ SF_vars(PushJob(p))
            /\ \A w \in Workers : WF_vars(WorkerStep(w)) /\ SF_vars(Lock(w))
            /\ WF_vars(OwnerStep) /\ SF_vars(RaiseStop)

Spec == Init /\ [][Next]_vars
FairSpec == Spec /\ Fairness

-----------------------------------------------------------------------------
\* Properties

\* Type correctness, and mtx has at most one holder.
TypeOK ==
  /\ tasks \in Seq(Jobs)
  /\ stop \in BOOLEAN
  /\ worker \in [Workers -> {"lock", "pred", "block", "sleep", "run", "done"}]
  /\ task \in [Workers -> Jobs \cup {NoJob}]
  /\ pc \in [Producers -> {"idle", "push", "notify"}]
  /\ count \in [Producers -> 0..MaxJobs]
  /\ owner \in {"live", "stop", "notify", "join", "gone"}
  /\ \A u, v \in Workers : worker[u] \in {"pred", "block"} /\ worker[v] \in {"pred", "block"} => u = v

\* While some worker sleeps, every queued job has a worker awake to take it or
\* a notify on its way: the pool never runs with fewer workers than it could,
\* although enqueue notifies after it has released the mutex.
WorkConserving ==
  Sleepers # {} =>
    Len(tasks) <= Cardinality({w \in Workers : worker[w] \in {"lock", "pred"}})
                  + Cardinality({p \in Producers : pc[p] = "notify"})

\* The pool with its mutex and condition variable is a TaskPool: every job once,
\* in order, and ~ThreadPool returns only after the queue is drained.
ImplementsTaskPool == Pool!Spec

\* Every job pushed is started by some worker, destruction included.
EveryJobStarts ==
  \A j \in Jobs : (\E i \in 1..Len(tasks) : tasks[i] = j) ~> (\E w \in Workers : task[w] = j)

\* ~ThreadPool returns.
ShutdownCompletes == owner = "stop" ~> owner = "gone"
=============================================================================
