--------------------------- MODULE ThreadPoolProof ---------------------------
(***************************************************************************)
(* What ThreadPool ensures for any number of producers, workers and jobs:    *)
(* mutual exclusion, enough workers awake, and that it is a TaskPool.        *)
(***************************************************************************)
EXTENDS ThreadPool, FiniteSetTheorems, TLAPS

USE MaxJobsAssumption, NoJobAssumption

\* A producer about to push has counted the job.
JobCounted == \A p \in Producers : pc[p] = "push" => count[p] \in 1..MaxJobs

\* A worker has a job in its hands exactly while it runs.
JobInHand == \A w \in Workers : task[w] # NoJob <=> worker[w] = "run"

\* A worker about to sleep has seen an empty queue, and nobody can have pushed
\* since, as it still holds mtx.
BlockEmpty == \A w \in Workers : worker[w] = "block" => tasks = <<>>

\* Once destruction begins nobody is inside enqueue; a worker that has left its
\* loop has seen the queue empty after that, and all have left it at the end.
Drained ==
  /\ owner # "live" => \A p \in Producers : pc[p] = "idle"
  /\ stop => owner \in {"notify", "join", "gone"}
  /\ \A w \in Workers : worker[w] = "done" => stop /\ tasks = <<>>

PoolInv == TypeOK /\ JobCounted /\ JobInHand /\ BlockEmpty /\ Drained

LEMMA PoolInit == Init => PoolInv
<1> SUFFICES ASSUME Init PROVE PoolInv
  OBVIOUS
<1>1. TypeOK
  <2>1. tasks \in Seq(Jobs)
    BY DEF Init
  <2>4. stop \in BOOLEAN
    BY Zenon DEF Init
  <2>2. count \in [Producers -> 0..MaxJobs] /\ task \in [Workers -> Jobs \cup {NoJob}]
    BY DEF Init
  <2>3. /\ worker = [w \in Workers |-> "lock"] /\ owner = "live"
        /\ pc = [p \in Producers |-> "idle"]
    BY DEF Init
  <2> QED BY <2>1, <2>2, <2>3, <2>4 DEF TypeOK
<1>2. JobCounted /\ JobInHand /\ BlockEmpty /\ Drained
  BY DEF Init, JobCounted, JobInHand, BlockEmpty, Drained
<1> QED BY <1>1, <1>2 DEF PoolInv

LEMMA PoolProducer ==
  ASSUME PoolInv, NEW p \in Producers, Enqueue(p) \/ ProducerStep(p)
  PROVE  PoolInv'
<1> USE DEF PoolInv, TypeOK, JobCounted, JobInHand, BlockEmpty, Drained
<1>1. CASE Enqueue(p)
  BY <1>1 DEF Enqueue
<1>2. CASE PushJob(p)
  <2>1. <<p, count[p]>> \in Jobs /\ pc' = [pc EXCEPT ![p] = "notify"]
    BY <1>2 DEF PushJob, Jobs, MustNotify
  <2>2. \A w \in Workers : worker[w] \notin {"block", "done"}
    BY <1>2 DEF PushJob, MutexFree
  <2> QED BY <1>2, <2>1, <2>2 DEF PushJob
<1>3. CASE NotifyOne(p)
  <2>1. \A w \in Workers : worker'[w] = worker[w] \/ (worker[w] = "sleep" /\ worker'[w] = "lock")
    BY <1>3 DEF NotifyOne, Sleepers, ToLock
  <2>2. worker' \in [Workers -> {"lock", "pred", "block", "sleep", "run", "done"}]
    BY <1>3 DEF NotifyOne, ToLock
  <2> QED BY <1>3, <2>1, <2>2 DEF NotifyOne
<1> QED BY <1>1, <1>2, <1>3 DEF ProducerStep

LEMMA PoolWorker ==
  ASSUME PoolInv, NEW w \in Workers, WorkerStep(w) \/ SpuriousWake(w)
  PROVE  PoolInv'
<1> USE DEF PoolInv, TypeOK, JobCounted, JobInHand, BlockEmpty, Drained
<1>1. CASE Lock(w)
  BY <1>1 DEF Lock, Move, MutexFree
<1>2. CASE PredFalse(w) \/ Block(w) \/ Exit(w) \/ SpuriousWake(w)
  BY <1>2 DEF PredFalse, Block, Exit, SpuriousWake, Move
<1>3. CASE Take(w)
  <2>1. Head(tasks) \in Jobs /\ Tail(tasks) \in Seq(Jobs)
    BY <1>3 DEF Take
  <2> QED BY <1>3, <2>1 DEF Take, Pop
<1>4. CASE Finish(w)
  BY <1>4 DEF Finish
<1> QED BY <1>1, <1>2, <1>3, <1>4 DEF WorkerStep

LEMMA PoolOwner ==
  ASSUME PoolInv, BeginDestroy \/ OwnerStep
  PROVE  PoolInv'
<1> USE DEF PoolInv, TypeOK, JobCounted, JobInHand, BlockEmpty, Drained
<1>1. CASE BeginDestroy
  BY <1>1 DEF BeginDestroy
<1>2. CASE RaiseStop
  BY <1>2 DEF RaiseStop
<1>3. CASE NotifyAll
  BY <1>3 DEF NotifyAll, Sleepers, ToLock
<1>4. CASE JoinAll
  BY <1>4 DEF JoinAll
<1> QED BY <1>1, <1>2, <1>3, <1>4 DEF OwnerStep

LEMMA PoolNext == PoolInv /\ [Next]_vars => PoolInv'
<1>1. CASE UNCHANGED vars
  BY <1>1 DEF vars, PoolInv, TypeOK, JobCounted, JobInHand, BlockEmpty, Drained
<1> QED BY <1>1, PoolProducer, PoolWorker, PoolOwner DEF Next

\* Every variable keeps its type, and mtx has at most one holder.
THEOREM TypeCorrect == Spec => []TypeOK
<1>1. PoolInv => TypeOK
  BY DEF PoolInv
<1> QED BY <1>1, PoolInit, PoolNext, PTL DEF Spec

-----------------------------------------------------------------------------
\* Enough workers are awake

\* The workers that will test the predicate before they sleep, and the
\* producers that owe a notify.
Awake == {w \in Workers : worker[w] \in {"lock", "pred"}}
Notifiers == {p \in Producers : pc[p] = "notify"}

\* Sets of workers and of producers are finite, and so have a size.
LEMMA Sizes ==
  /\ IsFiniteSet(Awake) /\ Cardinality(Awake) \in Nat
  /\ IsFiniteSet(Notifiers) /\ Cardinality(Notifiers) \in Nat
<1>1. Awake \in SUBSET Workers /\ Notifiers \in SUBSET Producers
  BY DEF Awake, Notifiers
<1>2. IsFiniteSet(Awake) /\ IsFiniteSet(Notifiers)
  BY <1>1, FS_Subset, WorkersAssumption
<1> QED BY <1>2, FS_CardinalityType

\* A worker that goes to sleep, or that takes a job, is one less; one that
\* comes to test the predicate is one more.
LEMMA OneLess ==
  ASSUME NEW S, IsFiniteSet(S), NEW x \in S
  PROVE  Cardinality(S \ {x}) = Cardinality(S) - 1
  BY FS_RemoveElement

LEMMA OneMore ==
  ASSUME NEW S, IsFiniteSet(S), NEW x, x \notin S
  PROVE  Cardinality(S \cup {x}) = Cardinality(S) + 1
  BY FS_AddElement

LEMMA ConservingNext == PoolInv /\ PoolInv' /\ WorkConserving /\ [Next]_vars => WorkConserving'
<1> SUFFICES ASSUME PoolInv, PoolInv', WorkConserving, [Next]_vars, Sleepers' # {}
             PROVE  Len(tasks') <= Cardinality(Awake') + Cardinality(Notifiers')
  BY DEF WorkConserving, Awake, Notifiers
<1>t. /\ worker \in [Workers -> {"lock", "pred", "block", "sleep", "run", "done"}]
      /\ pc \in [Producers -> {"idle", "push", "notify"}]
      /\ tasks \in Seq(Jobs) /\ Len(tasks) \in Nat
  BY DEF PoolInv, TypeOK
<1>w. Sleepers # {} => Len(tasks) <= Cardinality(Awake) + Cardinality(Notifiers)
  BY DEF WorkConserving, Awake, Notifiers
<1>e. CASE tasks' = <<>>
  <2>1. Cardinality(Awake') \in Nat /\ Cardinality(Notifiers') \in Nat
    <3>1. Awake' \in SUBSET Workers /\ Notifiers' \in SUBSET Producers
      BY DEF Awake, Notifiers
    <3> QED BY <3>1, FS_Subset, FS_CardinalityType, WorkersAssumption
  <2> QED BY <1>e, <2>1
<1>u. CASE UNCHANGED <<tasks, worker, pc>>
  BY <1>u, <1>w DEF Sleepers, Awake, Notifiers
<1>1. ASSUME NEW p \in Producers, PushJob(p)
      PROVE  Len(tasks') <= Cardinality(Awake') + Cardinality(Notifiers')
  <2>1. Notifiers' = Notifiers \cup {p} /\ p \notin Notifiers
    BY <1>1, <1>t DEF PushJob, Notifiers, MustNotify
  <2>2. Awake' = Awake /\ Sleepers' = Sleepers
    BY <1>1 DEF PushJob, Awake, Sleepers
  <2>3. Len(tasks') = Len(tasks) + 1
    BY <1>1, <1>t DEF PushJob
  <2> QED BY <1>t, <1>w, <2>1, <2>2, <2>3, Sizes, OneMore
<1>2. ASSUME NEW p \in Producers, NotifyOne(p)
      PROVE  Len(tasks') <= Cardinality(Awake') + Cardinality(Notifiers')
  <2>1. Sleepers # {}
    BY <1>2 DEF NotifyOne, Sleepers
  <2>2. PICK w \in Sleepers : worker' = ToLock({w})
    BY <1>2, <2>1 DEF NotifyOne
  <2>3. Awake' = Awake \cup {w} /\ w \notin Awake
    BY <1>t, <2>2 DEF Awake, Sleepers, ToLock
  <2>4. Notifiers' = Notifiers \ {p} /\ p \in Notifiers
    BY <1>2, <1>t DEF NotifyOne, Notifiers
  <2>5. tasks' = tasks
    BY <1>2 DEF NotifyOne
  <2> QED BY <1>t, <1>w, <2>1, <2>3, <2>4, <2>5, Sizes, OneMore, OneLess
<1>3. ASSUME NEW w \in Workers, Take(w)
      PROVE  Len(tasks') <= Cardinality(Awake') + Cardinality(Notifiers')
  <2>1. Awake' = Awake \ {w} /\ w \in Awake
    BY <1>3, <1>t DEF Take, Awake
  <2>2. Notifiers' = Notifiers /\ Sleepers' = Sleepers
    BY <1>3, <1>t DEF Take, Notifiers, Sleepers
  <2>3. Len(tasks') = Len(tasks) - 1
    BY <1>3, <1>t DEF Take, Pop
  <2> QED BY <1>t, <1>w, <2>1, <2>2, <2>3, Sizes, OneLess
<1>4. ASSUME NEW w \in Workers, Lock(w) \/ PredFalse(w) \/ Block(w) \/ Exit(w) \/ Finish(w)
                                \/ SpuriousWake(w)
      PROVE  Len(tasks') <= Cardinality(Awake') + Cardinality(Notifiers')
  <2>1. CASE Lock(w)
    <3>1. Awake' = Awake /\ Notifiers' = Notifiers /\ Sleepers' = Sleepers /\ tasks' = tasks
      BY <2>1, <1>t DEF Lock, Move, Awake, Notifiers, Sleepers
    <3> QED BY <1>w, <3>1
  <2>2. CASE PredFalse(w) \/ Block(w) \/ Exit(w)
    <3>1. tasks' = <<>>
      BY <2>2 DEF PredFalse, Block, Exit, Move, PoolInv, BlockEmpty
    <3> QED BY <1>e, <3>1
  <2>3. CASE Finish(w) \/ SpuriousWake(w)
    <3>1. Awake' = Awake \cup {w} /\ w \notin Awake
      BY <2>3, <1>t DEF Finish, SpuriousWake, Move, Awake
    <3>2. Notifiers' = Notifiers /\ tasks' = tasks /\ Sleepers # {}
      BY <2>3, <1>t DEF Finish, SpuriousWake, Move, Notifiers, Sleepers
    <3> QED BY <1>t, <1>w, <3>1, <3>2, Sizes, OneMore
  <2> QED BY <1>4, <2>1, <2>2, <2>3
<1>5. CASE NotifyAll
  <2>1. Sleepers' = {}
    BY <1>5, <1>t DEF NotifyAll, ToLock, Sleepers
  <2> QED BY <2>1
<1>6. ASSUME NEW p \in Producers, Enqueue(p)
      PROVE  Len(tasks') <= Cardinality(Awake') + Cardinality(Notifiers')
  <2>1. Awake' = Awake /\ Notifiers' = Notifiers /\ Sleepers' = Sleepers /\ tasks' = tasks
    BY <1>6, <1>t DEF Enqueue, Awake, Notifiers, Sleepers
  <2> QED BY <1>w, <2>1
<1>7. CASE BeginDestroy \/ RaiseStop \/ JoinAll \/ UNCHANGED vars
  BY <1>7, <1>u DEF BeginDestroy, RaiseStop, JoinAll, vars
<1> QED BY <1>1, <1>2, <1>3, <1>4, <1>5, <1>6, <1>7 DEF Next, ProducerStep, WorkerStep, OwnerStep

\* While a worker sleeps, every queued job has a worker awake or a notify to come.
THEOREM PoolConservesWork == Spec => []WorkConserving
<1>1. Init => WorkConserving
  BY DEF Init, WorkConserving, Sleepers
<1> QED BY <1>1, PoolInit, PoolNext, ConservingNext, PTL DEF Spec

-----------------------------------------------------------------------------
\* The refinement of TaskPool

\* A push is a Submit, a take a Start, the end of a job a Finish and the end of
\* the destructor the Close; whatever else threads do cannot be seen.
LEMMA PoolStep == PoolInv /\ [Next]_vars => [Pool!Next]_Pool!vars
<1> SUFFICES ASSUME PoolInv, [Next]_vars PROVE [Pool!Next]_Pool!vars
  OBVIOUS
<1> USE DEF Pool!Next, Pool!vars
<1>1. ASSUME NEW p \in Producers, PushJob(p) PROVE Pool!Next
  <2>1. <<p, count[p]>> \in Jobs
    BY <1>1 DEF PushJob, PoolInv, JobCounted, Jobs
  <2>2. owner = "live"
    BY <1>1 DEF PushJob, PoolInv, Drained
  <2>3. Pool!Submit(<<p, count[p]>>)
    BY <1>1, <2>2 DEF PushJob, Pool!Submit
  <2> QED BY <2>1, <2>3
<1>2. ASSUME NEW w \in Workers, Take(w) PROVE Pool!Next
  <2>1. Pool!Start(w)
    BY <1>2 DEF Take, Pop, Pool!Start, PoolInv, JobInHand
  <2> QED BY <2>1
<1>3. ASSUME NEW w \in Workers, Finish(w) PROVE Pool!Next
  <2>1. Pool!Finish(w)
    BY <1>3 DEF Finish, Pool!Finish, PoolInv, JobInHand
  <2> QED BY <2>1
<1>4. CASE JoinAll
  <2>1. tasks = <<>> /\ \A w \in Workers : task[w] = NoJob
    BY <1>4, WorkersAssumption DEF JoinAll, PoolInv, Drained, JobInHand
  <2>2. Pool!Close
    BY <1>4, <2>1 DEF JoinAll, Pool!Close
  <2> QED BY <2>2
<1>5. ASSUME NEW p \in Producers, Enqueue(p) \/ NotifyOne(p) PROVE UNCHANGED Pool!vars
  BY <1>5 DEF Enqueue, NotifyOne
<1>6. ASSUME NEW w \in Workers, \/ Lock(w) \/ PredFalse(w) \/ Block(w) \/ Exit(w)
                                \/ SpuriousWake(w)
      PROVE UNCHANGED Pool!vars
  BY <1>6 DEF Lock, PredFalse, Block, Exit, SpuriousWake, Move
<1>7. CASE BeginDestroy \/ RaiseStop \/ NotifyAll \/ UNCHANGED vars
  <2>1. tasks' = tasks /\ task' = task /\ (owner = "gone" <=> owner' = "gone")
    BY <1>7 DEF BeginDestroy, RaiseStop, NotifyAll, vars
  <2> QED BY <2>1
<1> QED BY <1>1, <1>2, <1>3, <1>4, <1>5, <1>6, <1>7
        DEF Next, ProducerStep, WorkerStep, OwnerStep

\* The pool with its mutex, its condition variable and its destructor starts
\* every job once, in the order of the pushes, and closes when nothing is left.
THEOREM PoolIsATaskPool == Spec => ImplementsTaskPool
<1>1. Init => Pool!Init
  BY DEF Init, Pool!Init
<1> QED BY <1>1, PoolInit, PoolNext, PoolStep, PTL DEF Spec, ImplementsTaskPool, Pool!Spec
=============================================================================
