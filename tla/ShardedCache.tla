---------------------------- MODULE ShardedCache ----------------------------
(***************************************************************************)
(* cache/cache.h: Cache<KeyType, ValueType> over Shard<KeyType, ValueType>. *)
(*                                                                          *)
(* The actors are the client threads, one worker thread per shard and the   *)
(* thread that destroys the cache.  One step is what a thread does between  *)
(* two points where another thread can be seen to interfere: taking a lock, *)
(* a predicate evaluated before a wait, a notify after the unlock.          *)
(***************************************************************************)
EXTENDS Integers, Sequences, FiniteSets

CONSTANTS Threads,      \* client threads
          Keys, Values,
          NoValue,      \* std::nullopt
          ShardCount,   \* the constructor's argument
          HashOf,       \* std::hash<KeyType>
          MaxOps        \* bound: calls a client makes

ASSUME NoValueAssumption == NoValue \notin Values
ASSUME MaxOpsAssumption == MaxOps \in Nat
ASSUME ShardCountAssumption == ShardCount \in Nat \ {0}
ASSUME HashAssumption == HashOf \in [Keys -> Nat]

Shards == 0 .. ShardCount - 1
getId(k) == HashOf[k] % ShardCount

VARIABLES
  storage,  \* storage[s][k]: value of key k in shard s, NoValue when absent
  tasks,    \* tasks[s]: the queue of tasks of shard s
  stop,     \* stop[s]: the atomic flag
  worker,   \* worker[s]: where the worker thread of shard s is
  task,     \* task[s]: the task the worker took
  pc,       \* pc[t]: where client t is
  req,      \* req[t]: the request client t is making
  calls,    \* calls[t]: how many calls client t has made
  promise,  \* promise[t][n]: the shared state behind the future of call n of t
  result,   \* result[t]: what the last get_sync of t returned
  owner,    \* where the destroying thread is
  closing,  \* the shard it destroys now: shards below are gone
  log,      \* history: log[s] is every task ever pushed to shard s
  applied   \* history: how many of them have run

clientVars == <<pc, req, calls, result>>
workerVars == <<worker, task, storage, applied>>
ownerVars == <<owner, closing, stop>>
vars == <<clientVars, workerVars, ownerVars, tasks, promise, log>>

\* The operators whose names end in Bug are variants of the definition that
\* follows them, each with a mistake the code could have made; no specification
\* uses them, and every property is false of a cache with one of them.

\* The cache is meant to be an asynchronous store whose partitions are the
\* shards; the destroyed shards are the closed partitions.
Store == INSTANCE AsyncStore WITH
           Partitions <- Shards,
           PartitionOf <- [k \in Keys |-> getId(k)],
           closed <- 0 .. closing - 1

NoTask == [op |-> "none", key |-> NoValue, val |-> NoValue, by |-> NoValue, id |-> 0]
Broken == [st |-> "broken", val |-> NoValue]

Init ==
  /\ storage = [s \in Shards |-> [k \in Keys |-> NoValue]]
  /\ tasks = [s \in Shards |-> <<>>]
  /\ stop = [s \in Shards |-> FALSE]
  /\ worker = [s \in Shards |-> "loop"]
  /\ task = [s \in Shards |-> NoTask]
  /\ pc = [t \in Threads |-> "idle"]
  /\ req = [t \in Threads |-> NoTask]
  /\ calls = [t \in Threads |-> 0]
  /\ promise = [t \in Threads |-> [n \in 1..MaxOps |-> [st |-> "none", val |-> NoValue]]]
  /\ result = [t \in Threads |-> NoValue]
  /\ owner = "live"
  /\ closing = 0
  /\ log = [s \in Shards |-> <<>>]
  /\ applied = [s \in Shards |-> 0]

(***************************************************************************)
(* The two locks of a shard.  The worker is the only thread that can be     *)
(* seen holding tasks_mutex (a push is over in one step), and the readers   *)
(* of get are the only ones seen holding the shared mutex.                  *)
(***************************************************************************)
UnlockedPushBug(s) == TRUE
TasksMutexFree(s) == worker[s] \notin {"pred", "block"}
UnlockedGetBug(s) == {}
Readers(s) == {t \in Threads : pc[t] = "copy" /\ getId(req[t].key) = s}

\* A condition variable moves the thread that sleeps on it, if there is one.
SilentBug(s) == UNCHANGED worker
Wake(s) == worker' = IF worker[s] = "sleep" THEN [worker EXCEPT ![s] = "lock"] ELSE worker

-----------------------------------------------------------------------------
\* Client calls

\* Every call computes the shard and goes on to its first lock.
Call(t, op, k, v, first) ==
  /\ owner = "live"
  /\ pc[t] = "idle"
  /\ calls[t] < MaxOps
  /\ calls' = [calls EXCEPT ![t] = @ + 1]
  /\ req' = [req EXCEPT ![t] = [op |-> op, key |-> k, val |-> v, by |-> t, id |-> calls[t] + 1]]
  /\ pc' = [pc EXCEPT ![t] = first]
  /\ UNCHANGED <<result, workerVars, ownerVars, tasks, promise, log>>

SetAsync(t, k, v) == Call(t, "set", k, v, "push")
RemoveAsync(t, k) == Call(t, "remove", k, NoValue, "push")
GetAsync(t, k) == Call(t, "get", k, NoValue, "push")
GetSync(t, k) == Call(t, "get", k, NoValue, "find")

\* tasks.push, and the element and the queue that front and pop leave.
GetsFirstBug(q, r) == IF r.op = "get" THEN <<r>> \o q ELSE Append(q, r)
Push(q, r) == Append(q, r)
NewestBug(q) == q[Len(q)]
Front(q) == Head(q)
NoPopBug(q) == q
Pop(q) == Tail(q)

\* push_task up to its unlock.  A get brings the promise that it answers.
PushTask(t) ==
  LET s == getId(req[t].key) IN
  /\ pc[t] = "push"
  /\ TasksMutexFree(s)
  /\ tasks' = [tasks EXCEPT ![s] = Push(@, req[t])]
  /\ log' = [log EXCEPT ![s] = Append(@, req[t])]
  /\ promise' = IF req[t].op = "get"
                THEN [promise EXCEPT ![t][req[t].id] = [st |-> "pending", val |-> NoValue]]
                ELSE promise
  /\ pc' = [pc EXCEPT ![t] = "notify"]
  /\ UNCHANGED <<req, calls, result, workerVars, ownerVars>>

Return(t, to) ==
  /\ pc' = [pc EXCEPT ![t] = to]
  /\ req' = [req EXCEPT ![t] = NoTask]
  /\ UNCHANGED calls

\* notify_one, after the unlock.  The caller of get_async may then block on
\* the future it is given, or keep it for later.
NotifyOne(t) ==
  /\ pc[t] = "notify"
  /\ Wake(getId(req[t].key))
  /\ \E to \in IF req[t].op = "get" THEN {"idle", "await"} ELSE {"idle"} : Return(t, to)
  /\ UNCHANGED <<result, task, storage, applied, ownerVars, tasks, promise, log>>

\* future::get returns once the promise is kept, and throws once it is broken.
Await(t) ==
  /\ pc[t] = "await"
  /\ promise[t][calls[t]].st \in {"ready", "broken"}
  /\ Return(t, "idle")
  /\ UNCHANGED <<result, workerVars, ownerVars, tasks, promise, log>>

\* Shard::get under the shared lock: an absent key returns at once, a key
\* that is found is copied through the iterator in a second step.
GetFind(t) ==
  LET s == getId(req[t].key) IN
  /\ pc[t] = "find"
  /\ \/ /\ storage[s][req[t].key] = NoValue
        /\ result' = [result EXCEPT ![t] = NoValue]
        /\ Return(t, "idle")
     \/ /\ storage[s][req[t].key] # NoValue
        /\ pc' = [pc EXCEPT ![t] = "copy"]
        /\ UNCHANGED <<req, calls, result>>
  /\ UNCHANGED <<workerVars, ownerVars, tasks, promise, log>>

GetCopy(t) ==
  /\ pc[t] = "copy"
  /\ result' = [result EXCEPT ![t] = storage[getId(req[t].key)][req[t].key]]
  /\ Return(t, "idle")
  /\ UNCHANGED <<workerVars, ownerVars, tasks, promise, log>>

-----------------------------------------------------------------------------
\* worker_loop

\* A step of the loop that only moves the worker.
Move(s, from, to) ==
  /\ worker[s] = from
  /\ worker' = [worker EXCEPT ![s] = to]
  /\ UNCHANGED <<task, storage, applied, clientVars, ownerVars, tasks, promise, log>>

LoopTest(s) == Move(s, "loop", IF stop[s] THEN "done" ELSE "lock")

\* The lock of line 37, and the one wait() takes back when it wakes up.
LockTasks(s) == Move(s, "lock", "pred")

\* The predicate is false: the worker will sleep, but holds the mutex still.
PredFalse(s) == tasks[s] = <<>> /\ ~stop[s] /\ Move(s, "pred", "block")

\* wait() releases the mutex and sleeps in one step.
Block(s) == Move(s, "block", "sleep")

SpuriousWake(s) == Move(s, "sleep", "lock")

ExitWhenEmptyBug(s) == tasks[s] = <<>> /\ Move(s, "pred", "done")

\* The predicate is true and there is nothing to pop: break.
ExitLoop(s) == tasks[s] = <<>> /\ stop[s] /\ Move(s, "pred", "done")

Take(s) ==
  /\ worker[s] = "pred"
  /\ tasks[s] # <<>>
  /\ task' = [task EXCEPT ![s] = Front(tasks[s])]
  /\ tasks' = [tasks EXCEPT ![s] = Pop(@)]
  /\ worker' = [worker EXCEPT ![s] = "run"]
  /\ UNCHANGED <<storage, applied, clientVars, ownerVars, promise, log>>

\* The task is over: back to the loop test with an empty std::function.
Finish(s) ==
  /\ worker[s] = "run"
  /\ worker' = [worker EXCEPT ![s] = "loop"]
  /\ task' = [task EXCEPT ![s] = NoTask]
  /\ applied' = [applied EXCEPT ![s] = @ + 1]
  /\ UNCHANGED <<clientVars, ownerVars, tasks, log>>

\* What Shard::set and Shard::remove, which wait for the readers to leave, make
\* of a map.  The bug is set(value, key), which compiles for Cache<int, int>.
SwappedBug(map, r) == [map EXCEPT ![r.key] = r.key]
Stored(map, r) == [map EXCEPT ![r.key] = r.val]

RunSet(s) ==
  /\ task[s].op = "set"
  /\ Readers(s) = {}
  /\ storage' = [storage EXCEPT ![s] = Stored(@, task[s])]
  /\ UNCHANGED promise
  /\ Finish(s)

RunRemove(s) ==
  /\ task[s].op = "remove"
  /\ Readers(s) = {}
  /\ storage' = [storage EXCEPT ![s][task[s].key] = NoValue]
  /\ UNCHANGED promise
  /\ Finish(s)

RunGet(s) ==
  /\ task[s].op = "get"
  /\ promise' = [promise EXCEPT ![task[s].by][task[s].id] =
                   [st |-> "ready", val |-> storage[s][task[s].key]]]
  /\ UNCHANGED storage
  /\ Finish(s)

-----------------------------------------------------------------------------
\* ~Cache destroys the shards one after another.  The program has joined the
\* threads that were inside a call; a thread may still wait on a future.

BeginDestroy ==
  /\ owner = "live"
  /\ \A t \in Threads : pc[t] \in {"idle", "await"}
  /\ owner' = "stop"
  /\ UNCHANGED <<closing, stop, clientVars, workerVars, tasks, promise, log>>

\* The flag is raised without tasks_mutex.
StopShard ==
  /\ owner = "stop"
  /\ stop' = [stop EXCEPT ![closing] = TRUE]
  /\ owner' = "notify"
  /\ UNCHANGED <<closing, clientVars, workerVars, tasks, promise, log>>

NotifyAll ==
  /\ owner = "notify"
  /\ Wake(closing)
  /\ owner' = "join"
  /\ UNCHANGED <<closing, stop, task, storage, applied, clientVars, tasks, promise, log>>

\* The promises held by the tasks left in the queue of shard s.
Dropped(s, t, n) ==
  \E i \in 1..Len(tasks[s]) : tasks[s][i].op = "get" /\ tasks[s][i].by = t /\ tasks[s][i].id = n

\* What destroying the queue of shard s does to the promises.
LeakBug(s) == promise
Broke(s) == [t \in Threads |-> [n \in 1..MaxOps |->
              IF Dropped(s, t, n) THEN Broken ELSE promise[t][n]]]

DetachBug(s) == TRUE
Joined(s) == worker[s] = "done"

\* join returns, and the members are destroyed with the tasks still queued.
JoinAndFree ==
  /\ owner = "join"
  /\ Joined(closing)
  /\ tasks' = [tasks EXCEPT ![closing] = <<>>]
  /\ promise' = Broke(closing)
  /\ closing' = closing + 1
  /\ owner' = IF closing' = ShardCount THEN "gone" ELSE "stop"
  /\ UNCHANGED <<stop, clientVars, workerVars, log>>

-----------------------------------------------------------------------------
StartCall(t) == \E k \in Keys : \/ \E v \in Values : SetAsync(t, k, v)
                                \/ RemoveAsync(t, k) \/ GetAsync(t, k) \/ GetSync(t, k)
ClientStep(t) == PushTask(t) \/ NotifyOne(t) \/ Await(t) \/ GetFind(t) \/ GetCopy(t)
WorkerStep(s) == \/ LoopTest(s) \/ LockTasks(s) \/ PredFalse(s) \/ Block(s) \/ ExitLoop(s)
                 \/ Take(s) \/ RunSet(s) \/ RunRemove(s) \/ RunGet(s)
OwnerStep == StopShard \/ NotifyAll \/ JoinAndFree

Next == \/ \E t \in Threads : StartCall(t) \/ ClientStep(t)
        \/ \E s \in Shards : WorkerStep(s) \/ SpuriousWake(s)
        \/ BeginDestroy \/ OwnerStep

\* Every thread is scheduled, and a thread that asks for tasks_mutex again and
\* again gets it.  Nothing makes a client call, a wake-up spurious or the
\* owner destroy the cache.
Fairness == /\ \A t \in Threads : WF_vars(ClientStep(t)) /\ SF_vars(PushTask(t))
            /\ \A s \in Shards : WF_vars(WorkerStep(s))
            /\ WF_vars(OwnerStep)

Spec == Init /\ [][Next]_vars
FairSpec == Spec /\ Fairness

-----------------------------------------------------------------------------
\* Properties

\* Type correctness of every variable of the cache and its threads.
TypeOK ==
  /\ storage \in [Shards -> [Keys -> Store!Maybe]]
  /\ tasks \in [Shards -> Seq(Store!Task)]
  /\ stop \in [Shards -> BOOLEAN]
  /\ worker \in [Shards -> {"loop", "lock", "pred", "block", "sleep", "run", "done"}]
  /\ task \in [Shards -> Store!Task \cup {NoTask}]
  /\ pc \in [Threads -> {"idle", "push", "notify", "find", "copy", "await"}]
  /\ req \in [Threads -> Store!Task \cup {NoTask}]
  /\ calls \in [Threads -> 0..MaxOps]
  /\ promise \in [Threads -> [1..MaxOps -> Store!Promise]]
  /\ result \in [Threads -> Store!Maybe]
  /\ owner \in {"live", "stop", "notify", "join", "gone"}
  /\ closing \in 0..ShardCount
  /\ log \in [Shards -> Seq(Store!Task)]
  /\ applied \in [Shards -> Nat]

\* Until its shard is destroyed, every task ever pushed has run, is being run
\* or is queued, in the order of the pushes: the move out of the queue and the
\* unlocked run after it neither lose a task, nor run one twice, nor let a
\* later one overtake.
InHand(s) == IF worker[s] = "run" THEN 1 ELSE 0
NoTaskLost ==
  \A s \in Shards : s >= closing =>
    /\ applied[s] + InHand(s) + Len(tasks[s]) = Len(log[s])
    /\ \A i \in 1..Len(tasks[s]) : tasks[s][i] = log[s][applied[s] + InHand(s) + i]
    /\ worker[s] = "run" => task[s] = log[s][applied[s] + 1]

\* push_task notifies after it has released tasks_mutex, and wait() tests its
\* predicate before it sleeps: a worker sleeps on a non-empty queue only while
\* the notify for one of the tasks is still to come.
NoLostWakeup ==
  \A s \in Shards : worker[s] = "sleep" /\ tasks[s] # <<>> =>
    \E t \in Threads : pc[t] = "notify" /\ getId(req[t].key) = s

\* The map of a shard is what the tasks run so far make of the empty map:
\* sets and removes of any number of threads take effect in push order.
StorageIsReplay ==
  \A s \in Shards, k \in Keys :
    storage[s][k] = IF getId(k) = s THEN Store!ValueAt(log[s], k, applied[s]) ELSE NoValue

\* An asynchronous get answers with the value its key had right after the
\* tasks pushed before it and before any pushed later, whatever ran meanwhile.
AsyncReadsExact ==
  \A s \in Shards : \A i \in 1..applied[s] : log[s][i].op = "get" =>
    promise[log[s][i].by][log[s][i].id] =
      [st |-> "ready", val |-> Store!ValueAt(log[s], log[s][i].key, i - 1)]

\* The iterator of Shard::get is dereferenced after find(): the entry is not
\* erased in between by the worker of the shard.
IteratorStaysValid ==
  \A t \in Threads : pc[t] = "copy" => storage[getId(req[t].key)][req[t].key] # NoValue

\* A future whose promise is neither kept nor broken has its task somewhere: in
\* a queue or in the hands of a worker.  Without it future::get blocks for ever.
Owes(s, t, n) ==
  \/ worker[s] = "run" /\ task[s].op = "get" /\ task[s].by = t /\ task[s].id = n
  \/ Dropped(s, t, n)
NoPromiseForgotten ==
  \A t \in Threads, n \in 1..MaxOps :
    promise[t][n].st = "pending" => \E s \in Shards : s >= closing /\ Owes(s, t, n)

\* The cache with its locks and threads is an asynchronous store.
ImplementsAsyncStore == Store!Spec

\* Every future becomes ready or broken, destruction of the cache included.
FuturesSettle ==
  \A t \in Threads, n \in 1..MaxOps :
    promise[t][n].st = "pending" ~> promise[t][n].st \in {"ready", "broken"}

\* Every task pushed runs in the end, unless its shard is being stopped.
TasksRun ==
  \A s \in Shards : \A i \in 1..Cardinality(Threads) * MaxOps :
    Len(log[s]) >= i ~> applied[s] >= i \/ stop[s]

-----------------------------------------------------------------------------
\* What the tests take for granted and the code does not ensure

\* The destructor of every cache the tests build returns.
ShutdownCompletes == owner = "stop" ~> owner = "gone"
=============================================================================
