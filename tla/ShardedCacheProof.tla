-------------------------- MODULE ShardedCacheProof --------------------------
(***************************************************************************)
(* What ShardedCache ensures for any number of threads, keys, values and    *)
(* shards.                                                                  *)
(***************************************************************************)
EXTENDS ShardedCache, TLAPS

USE NoValueAssumption, MaxOpsAssumption, ShardCountAssumption, HashAssumption

\* The modulo names a shard.
LEMMA getIdType == \A k \in Keys : getId(k) \in Shards
  BY DEF getId, Shards

\* A request in the making is one of its thread's, its latest.
RequestsMade ==
  \A t \in Threads :
    /\ pc[t] \in {"push", "notify", "find", "copy"} =>
         req[t] \in Store!Task /\ req[t].by = t /\ req[t].id = calls[t]
    /\ pc[t] = "await" => calls[t] \in 1..MaxOps

\* The worker holds a task when it is about to run one.
TaskInHand == \A s \in Shards : worker[s] = "run" => task[s] \in Store!Task

\* A shard is only destroyed when its worker has left its loop, no client is
\* inside a call then, and there is a shard left to destroy until the end.
DestroyedInOrder ==
  /\ \A s \in Shards : s < closing => worker[s] = "done"
  /\ owner # "live" => \A t \in Threads : pc[t] \in {"idle", "await"}
  /\ owner \in {"stop", "notify", "join"} => closing < ShardCount
  /\ owner = "live" => closing = 0

\* Type correctness with the facts about control it needs.
TypeInv == TypeOK /\ RequestsMade /\ TaskInHand /\ DestroyedInOrder

LEMMA TypeInit == Init => TypeInv
  BY DEF Init, TypeInv, TypeOK, RequestsMade, TaskInHand, DestroyedInOrder, Store!Maybe,
         Store!Task, Store!Promise, NoTask, Shards

\* The four calls only differ in what they ask for.
LEMMA TypeCall ==
  ASSUME TypeInv, NEW t \in Threads, NEW op \in {"set", "remove", "get"}, NEW k \in Keys,
         NEW v \in Store!Maybe, op = "set" <=> v # NoValue,
         NEW first \in {"push", "find"}, Call(t, op, k, v, first)
  PROVE  TypeInv'
<1> DEFINE r == [op |-> op, key |-> k, val |-> v, by |-> t, id |-> calls[t] + 1]
<1>1. calls[t] + 1 \in 1..MaxOps
  BY DEF Call, TypeInv, TypeOK
<1>2. r \in Store!Task /\ r.by = t /\ r.id = calls[t] + 1
  BY <1>1 DEF Store!Task
<1>3. req' = [req EXCEPT ![t] = r] /\ calls' = [calls EXCEPT ![t] = @ + 1]
      /\ pc' = [pc EXCEPT ![t] = first] /\ owner = "live"
  BY DEF Call
<1> HIDE DEF r
<1>4. TypeOK'
  BY <1>1, <1>2, <1>3 DEF Call, TypeInv, TypeOK, workerVars, ownerVars
<1>5. RequestsMade'
  BY <1>1, <1>2, <1>3 DEF TypeInv, TypeOK, RequestsMade
<1>6. TaskInHand' /\ DestroyedInOrder'
  BY <1>3 DEF Call, TypeInv, TaskInHand, DestroyedInOrder, workerVars, ownerVars
<1> QED BY <1>4, <1>5, <1>6 DEF TypeInv

\* A task is pushed whole, to the shard of its key.
LEMMA TypePush ==
  ASSUME TypeInv, NEW t \in Threads, PushTask(t)
  PROVE  TypeInv'
<1> DEFINE s == getId(req[t].key)
<1>1. pc[t] = "push" /\ pc' = [pc EXCEPT ![t] = "notify"]
      /\ UNCHANGED <<req, calls, result, workerVars, ownerVars>>
  BY DEF PushTask
<1>2. req[t] \in Store!Task /\ req[t].by = t /\ req[t].id = calls[t]
  BY <1>1 DEF TypeInv, RequestsMade
<1>3. req[t].key \in Keys /\ req[t].id \in 1..MaxOps
  BY <1>2 DEF Store!Task
<1>4. s \in Shards
  BY <1>3, getIdType
<1>5. /\ tasks' = [tasks EXCEPT ![s] = Append(@, req[t])]
      /\ log' = [log EXCEPT ![s] = Append(@, req[t])]
  BY DEF PushTask, Push
<1> HIDE DEF s
<1>6. tasks' \in [Shards -> Seq(Store!Task)] /\ log' \in [Shards -> Seq(Store!Task)]
  BY <1>2, <1>4, <1>5 DEF TypeInv, TypeOK
<1>7. promise' \in [Threads -> [1..MaxOps -> Store!Promise]]
  BY <1>3 DEF PushTask, TypeInv, TypeOK, Store!Promise, Store!Maybe
<1>8. TypeOK'
  BY <1>1, <1>6, <1>7 DEF TypeInv, TypeOK, workerVars, ownerVars
<1>9. RequestsMade' /\ TaskInHand' /\ DestroyedInOrder'
  BY <1>1, <1>2 DEF TypeInv, TypeOK, RequestsMade, TaskInHand, DestroyedInOrder, workerVars, ownerVars
<1> QED BY <1>8, <1>9 DEF TypeInv

LEMMA TypeClient ==
  ASSUME TypeInv, NEW t \in Threads, ClientStep(t)
  PROVE  TypeInv'
<1> USE DEF TypeInv, TypeOK, Store!Maybe, workerVars, ownerVars
<1>1. CASE PushTask(t)
  BY <1>1, TypePush
<1>2. CASE NotifyOne(t)
  <2>1. calls[t] \in 1..MaxOps
    BY <1>2 DEF NotifyOne, RequestsMade, Store!Task
  <2>2. PICK to \in {"idle", "await"} : Return(t, to)
    BY <1>2 DEF NotifyOne
  <2>3. \A s \in Shards : worker'[s] = worker[s] \/ (worker[s] = "sleep" /\ worker'[s] = "lock")
    BY <1>2, getIdType DEF NotifyOne, Wake, RequestsMade, Store!Task
  <2>4. TypeOK'
    BY <1>2, <2>2 DEF NotifyOne, Return, Wake
  <2>5. RequestsMade'
    BY <1>2, <2>1, <2>2 DEF Return, RequestsMade
  <2>6. TaskInHand' /\ DestroyedInOrder'
    BY <1>2, <2>2, <2>3 DEF NotifyOne, Return, TaskInHand, DestroyedInOrder
  <2> QED BY <2>4, <2>5, <2>6
<1>3. CASE Await(t)
  BY <1>3 DEF Await, Return, RequestsMade, TaskInHand, DestroyedInOrder
<1>4. CASE GetFind(t)
  <2>1. CASE pc' = [pc EXCEPT ![t] = "copy"] /\ UNCHANGED <<req, calls, result>>
    BY <1>4, <2>1 DEF GetFind, RequestsMade, TaskInHand, DestroyedInOrder
  <2>2. CASE result' = [result EXCEPT ![t] = NoValue] /\ Return(t, "idle")
    BY <1>4, <2>2 DEF GetFind, Return, RequestsMade, TaskInHand, DestroyedInOrder
  <2> QED BY <1>4, <2>1, <2>2 DEF GetFind
<1>5. CASE GetCopy(t)
  <2>1. req[t].key \in Keys /\ getId(req[t].key) \in Shards
    BY <1>5, getIdType DEF GetCopy, RequestsMade, Store!Task
  <2> QED BY <1>5, <2>1 DEF GetCopy, Return, RequestsMade, TaskInHand, DestroyedInOrder
<1> QED BY <1>1, <1>2, <1>3, <1>4, <1>5 DEF ClientStep

LEMMA TypeWorker ==
  ASSUME TypeInv, NEW s \in Shards, WorkerStep(s) \/ SpuriousWake(s)
  PROVE  TypeInv'
<1> USE DEF TypeInv, TypeOK, Store!Maybe, clientVars, ownerVars, RequestsMade, TaskInHand,
            DestroyedInOrder
<1>1. ASSUME NEW from \in {"loop", "lock", "pred", "block", "sleep"},
             NEW to \in {"lock", "pred", "block", "sleep", "done"}, Move(s, from, to)
      PROVE  TypeInv'
  BY <1>1 DEF Move
<1>2. CASE LoopTest(s) \/ LockTasks(s) \/ PredFalse(s) \/ Block(s) \/ ExitLoop(s) \/ SpuriousWake(s)
  BY <1>1, <1>2 DEF LoopTest, LockTasks, PredFalse, Block, ExitLoop, SpuriousWake
<1>3. CASE Take(s)
  BY <1>3 DEF Take, Front, Pop
<1>4. ASSUME worker[s] = "run", Finish(s),
             storage' \in [Shards -> [Keys -> Store!Maybe]],
             promise' \in [Threads -> [1..MaxOps -> Store!Promise]]
      PROVE  TypeInv'
  BY <1>4 DEF Finish
<1>5. worker[s] = "run" => /\ task[s].key \in Keys
                           /\ task[s].val \in Store!Maybe
                           /\ task[s].by \in Threads
                           /\ task[s].id \in 1..MaxOps
  BY DEF Store!Task
<1>6. CASE RunSet(s)
  BY <1>4, <1>5, <1>6 DEF RunSet, Stored, Finish
<1>7. CASE RunRemove(s)
  BY <1>4, <1>5, <1>7 DEF RunRemove, Finish
<1>8. CASE RunGet(s)
  <2>1. promise' \in [Threads -> [1..MaxOps -> Store!Promise]]
    BY <1>5, <1>8 DEF RunGet, Finish, Store!Promise
  <2> QED BY <1>4, <1>8, <2>1 DEF RunGet, Finish
<1> QED BY <1>2, <1>3, <1>6, <1>7, <1>8 DEF WorkerStep

LEMMA TypeOwner ==
  ASSUME TypeInv, BeginDestroy \/ OwnerStep
  PROVE  TypeInv'
<1> USE DEF TypeInv, TypeOK, Store!Maybe, clientVars, workerVars, RequestsMade, TaskInHand,
            DestroyedInOrder
<1>1. CASE BeginDestroy
  BY <1>1 DEF BeginDestroy
<1>2. CASE StopShard
  BY <1>2 DEF StopShard
<1>3. CASE NotifyAll
  BY <1>3 DEF NotifyAll, Wake
<1>4. CASE JoinAndFree
  <2>1. closing \in Shards /\ closing < ShardCount
    BY <1>4 DEF JoinAndFree, Joined, Broke, Shards
  <2>2. promise' \in [Threads -> [1..MaxOps -> Store!Promise]]
    BY <1>4 DEF JoinAndFree, Joined, Broke, Broken, Store!Promise
  <2> QED BY <1>4, <2>1, <2>2 DEF JoinAndFree, Joined, Broke, Shards
<1> QED BY <1>1, <1>2, <1>3, <1>4 DEF OwnerStep

LEMMA TypeNext == TypeInv /\ [Next]_vars => TypeInv'
<1> SUFFICES ASSUME TypeInv, [Next]_vars PROVE TypeInv'
  OBVIOUS
<1>1. ASSUME NEW t \in Threads, StartCall(t) PROVE TypeInv'
  <2>1. PICK k \in Keys : (\E v \in Values : SetAsync(t, k, v)) \/ RemoveAsync(t, k)
                          \/ GetAsync(t, k) \/ GetSync(t, k)
    BY <1>1 DEF StartCall
  <2> QED BY <2>1, TypeCall DEF SetAsync, RemoveAsync, GetAsync, GetSync, Store!Maybe
<1>2. CASE UNCHANGED vars
  BY <1>2 DEF vars, clientVars, workerVars, ownerVars, TypeInv, TypeOK, RequestsMade,
              TaskInHand, DestroyedInOrder
<1> QED BY <1>1, <1>2, TypeClient, TypeWorker, TypeOwner DEF Next

\* Every variable keeps its type in every behaviour.
THEOREM TypeCorrect == Spec => []TypeOK
<1>1. TypeInv => TypeOK
  BY DEF TypeInv
<1> QED BY <1>1, TypeInit, TypeNext, PTL DEF Spec

-----------------------------------------------------------------------------
\* The order in which tasks take effect

\* v is what key k holds after the first n tasks of seq: the relation behind
\* Store!ValueAt, with the last write as a witness instead of a choice.
Holds(seq, k, n, v) ==
  LET W == Store!WritesTo(seq, k, n) IN
  \/ W = {} /\ v = NoValue
  \/ \E i \in W : (\A j \in W : j <= i) /\ v = seq[i].val

\* The relation determines the value, and is what the choice chooses.
LEMMA HoldsValue ==
  ASSUME NEW seq, NEW k, NEW n \in Nat, NEW v, Holds(seq, k, n, v)
  PROVE  v = Store!ValueAt(seq, k, n)
<1> DEFINE W == Store!WritesTo(seq, k, n)
           last == CHOOSE i \in W : \A j \in W : j <= i
<1>1. W \subseteq 1..n
  BY DEF Store!WritesTo
<1>2. CASE W = {}
  BY <1>2 DEF Holds, Store!ValueAt
<1>3. CASE W # {}
  <2>1. PICK i \in W : (\A j \in W : j <= i) /\ v = seq[i].val
    BY <1>3 DEF Holds
  <2>2. last \in W /\ \A j \in W : j <= last
    BY <2>1
  <2>3. i <= last /\ last <= i /\ i \in Int /\ last \in Int
    BY <1>1, <2>1, <2>2
  <2>4. last = i
    BY <2>3
  <2>5. Store!ValueAt(seq, k, n) = seq[last].val
    BY <1>3, Zenon DEF Store!ValueAt
  <2> QED BY <2>1, <2>4, <2>5
<1> QED BY <1>2, <1>3

\* What is pushed later does not change what the earlier tasks left.
LEMMA HoldsAppend ==
  ASSUME NEW S, NEW seq \in Seq(S), NEW x \in S, NEW k, NEW n \in 0..Len(seq), NEW v,
         Holds(seq, k, n, v)
  PROVE  Holds(Append(seq, x), k, n, v)
<1>1. \A i \in 1..n : Append(seq, x)[i] = seq[i]
  OBVIOUS
<1>2. Store!WritesTo(Append(seq, x), k, n) = Store!WritesTo(seq, k, n)
  BY <1>1 DEF Store!WritesTo
<1>3. \A i \in Store!WritesTo(seq, k, n) : Append(seq, x)[i] = seq[i]
  BY <1>1 DEF Store!WritesTo
<1> QED BY <1>2, <1>3 DEF Holds

\* One more task changes the key it writes and no other.
LEMMA HoldsStep ==
  ASSUME NEW seq, NEW k, NEW n \in Nat, NEW v, Holds(seq, k, n, v)
  PROVE  Holds(seq, k, n + 1,
               IF Store!IsWrite(seq[n + 1]) /\ seq[n + 1].key = k THEN seq[n + 1].val ELSE v)
<1>1. CASE Store!IsWrite(seq[n + 1]) /\ seq[n + 1].key = k
  <2>1. n + 1 \in Store!WritesTo(seq, k, n + 1)
    BY <1>1 DEF Store!WritesTo
  <2>2. \A j \in Store!WritesTo(seq, k, n + 1) : j <= n + 1
    BY DEF Store!WritesTo
  <2> QED BY <1>1, <2>1, <2>2 DEF Holds
<1>2. CASE ~(Store!IsWrite(seq[n + 1]) /\ seq[n + 1].key = k)
  <2>1. Store!WritesTo(seq, k, n + 1) = Store!WritesTo(seq, k, n)
    BY <1>2 DEF Store!WritesTo
  <2> QED BY <1>2, <2>1 DEF Holds
<1> QED BY <1>1, <1>2

\* Every task is in the log of the shard its key belongs to, and only logged
\* tasks have run.
LogOnShard ==
  \A s \in Shards : /\ applied[s] <= Len(log[s])
                   /\ \A i \in 1..Len(log[s]) : getId(log[s][i].key) = s

\* A worker about to sleep has left nothing in the queue: nobody can push while
\* it holds tasks_mutex.
BlockEmpty == \A s \in Shards : worker[s] = "block" => tasks[s] = <<>>

\* StorageIsReplay with a witness.
Replay ==
  \A s \in Shards, k \in Keys : Holds(log[s], k, applied[s], storage[s][k])

OrderInv == LogOnShard /\ NoTaskLost /\ BlockEmpty /\ NoLostWakeup /\ Replay

LEMMA OrderInit == Init => OrderInv
<1> SUFFICES ASSUME Init PROVE OrderInv
  OBVIOUS
<1>1. Replay
  <2> SUFFICES ASSUME NEW s \in Shards, NEW k \in Keys
               PROVE  Holds(log[s], k, applied[s], storage[s][k])
    BY DEF Replay
  <2>1. applied[s] = 0 /\ storage[s][k] = NoValue
    BY DEF Init
  <2>2. Store!WritesTo(log[s], k, 0) = {}
    BY DEF Store!WritesTo
  <2> QED BY <2>1, <2>2 DEF Holds
<1>2. LogOnShard /\ NoTaskLost /\ BlockEmpty /\ NoLostWakeup
  BY DEF Init, LogOnShard, NoTaskLost, BlockEmpty, NoLostWakeup, InHand, Shards
<1> QED BY <1>1, <1>2 DEF OrderInv

\* A push appends to the queue and to the log, and owes a notify.
LEMMA OrderPush ==
  ASSUME TypeInv, OrderInv, NEW t \in Threads, PushTask(t)
  PROVE  OrderInv'
<1>r. req[t] \in Store!Task /\ getId(req[t].key) \in Shards
  BY getIdType DEF Push, PushTask, TypeInv, RequestsMade, Store!Task
<1>c. PICK c \in Shards, x \in Store!Task : c = getId(x.key) /\ x = req[t]
  BY <1>r
<1>1. x \in Store!Task /\ c \in Shards /\ c = getId(req[t].key)
  BY <1>c
<1>2. /\ tasks' = [tasks EXCEPT ![c] = Append(@, x)]
      /\ log' = [log EXCEPT ![c] = Append(@, x)]
      /\ worker[c] \notin {"pred", "block"}
      /\ pc[t] = "push" /\ pc' = [pc EXCEPT ![t] = "notify"]
      /\ UNCHANGED <<req, worker, task, storage, applied, closing>>
  BY <1>c DEF Push, PushTask, TasksMutexFree, workerVars, ownerVars
<1>3. closing = 0
  BY <1>2 DEF TypeInv, TypeOK, DestroyedInOrder
<1>4. /\ tasks \in [Shards -> Seq(Store!Task)] /\ log \in [Shards -> Seq(Store!Task)]
      /\ applied \in [Shards -> Nat] /\ Shards \subseteq Nat
      /\ pc \in [Threads -> {"idle", "push", "notify", "find", "copy", "await"}]
  BY DEF TypeInv, TypeOK, Shards
<1>5. /\ \A s \in Shards \ {c} : tasks'[s] = tasks[s] /\ log'[s] = log[s]
      /\ tasks'[c] = Append(tasks[c], x) /\ log'[c] = Append(log[c], x)
  BY <1>1, <1>2, <1>4
<1>a. /\ Len(log[c]) \in Nat /\ Len(log'[c]) = Len(log[c]) + 1
      /\ \A i \in 1..Len(log[c]) : log'[c][i] = log[c][i]
      /\ log'[c][Len(log[c]) + 1] = x
  BY <1>1, <1>4, <1>5
<1>b. /\ Len(tasks[c]) \in Nat /\ Len(tasks'[c]) = Len(tasks[c]) + 1
      /\ \A i \in 1..Len(tasks[c]) : tasks'[c][i] = tasks[c][i]
      /\ tasks'[c][Len(tasks[c]) + 1] = x
  BY <1>1, <1>4, <1>5
<1>6. LogOnShard'
  <2>1. \A i \in 1..Len(log[c]) : getId(log'[c][i].key) = c
    BY <1>1, <1>a DEF OrderInv, LogOnShard
  <2>2. \A i \in 1..Len(log'[c]) : i \in 1..Len(log[c]) \/ i = Len(log[c]) + 1
    BY <1>a
  <2>3. \A i \in 1..Len(log'[c]) : getId(log'[c][i].key) = c
    BY <1>c, <1>a, <2>1, <2>2
  <2>4. applied[c] <= Len(log'[c])
    BY <1>1, <1>4, <1>a DEF OrderInv, LogOnShard
  <2> QED BY <1>2, <1>5, <2>3, <2>4 DEF OrderInv, LogOnShard
<1>7. NoTaskLost'
  <2> DEFINE d == applied[c] + InHand(c)
  <2>1. \A s \in Shards : InHand(s)' = InHand(s) /\ InHand(s) \in {0, 1}
    BY <1>2 DEF InHand
  <2>2. /\ d + Len(tasks[c]) = Len(log[c])
        /\ \A i \in 1..Len(tasks[c]) : tasks[c][i] = log[c][d + i]
        /\ worker[c] = "run" => d = applied[c] + 1 /\ task[c] = log[c][applied[c] + 1]
    BY <1>1, <1>3, <1>4 DEF OrderInv, NoTaskLost, InHand
  <2>d. d \in Nat
    BY <1>1, <1>4, <2>1
  <2> HIDE DEF d
  <2>3. /\ d + Len(tasks'[c]) = Len(log'[c])
        /\ \A i \in 1..Len(tasks'[c]) : tasks'[c][i] = log'[c][d + i]
    <3>1. ASSUME NEW i \in 1..Len(tasks[c])
          PROVE  tasks'[c][i] = log'[c][d + i]
      <4>1. d + i \in 1..Len(log[c])
        BY <1>a, <1>b, <2>2, <2>d
      <4> QED BY <1>a, <1>b, <2>2, <4>1
    <3>2. d + (Len(tasks[c]) + 1) = Len(log[c]) + 1
      BY <1>a, <1>b, <2>2, <2>d
    <3>3. \A i \in 1..Len(tasks'[c]) : i \in 1..Len(tasks[c]) \/ i = Len(tasks[c]) + 1
      BY <1>b
    <3> QED BY <1>a, <1>b, <3>1, <3>2, <3>3
  <2>4. worker[c] = "run" => task[c] = log'[c][applied[c] + 1]
    <3>1. worker[c] = "run" => d \in 1..Len(log[c]) /\ d = applied[c] + 1
      BY <1>4, <1>a, <1>b, <2>2
    <3> QED BY <1>a, <2>2, <3>1
  <2>5. \A s \in Shards \ {c} : s >= closing =>
          /\ applied[s] + InHand(s) + Len(tasks'[s]) = Len(log'[s])
          /\ \A i \in 1..Len(tasks'[s]) : tasks'[s][i] = log'[s][applied[s] + InHand(s) + i]
          /\ worker[s] = "run" => task[s] = log'[s][applied[s] + 1]
    BY <1>5 DEF OrderInv, NoTaskLost
  <2>6. closing' = closing /\ applied' = applied /\ worker' = worker /\ task' = task
    BY <1>2
  <2> QED BY <2>1, <2>3, <2>4, <2>5, <2>6 DEF NoTaskLost, d
<1>8. BlockEmpty'
  BY <1>2, <1>5 DEF OrderInv, BlockEmpty
<1>9. NoLostWakeup'
  BY <1>c, <1>2, <1>4, <1>5 DEF OrderInv, NoLostWakeup
<1>10. Replay'
  <2> SUFFICES ASSUME NEW s \in Shards, NEW k \in Keys
               PROVE  Holds(log'[s], k, applied[s], storage[s][k])
    BY <1>2 DEF Replay
  <2>1. Holds(log[s], k, applied[s], storage[s][k])
    BY DEF OrderInv, Replay
  <2>2. applied[s] \in 0..Len(log[s])
    <3>1. applied[s] + InHand(s) + Len(tasks[s]) = Len(log[s])
      BY <1>3, <1>4 DEF OrderInv, NoTaskLost
    <3>2. InHand(s) \in {0, 1} /\ applied[s] \in Nat /\ Len(tasks[s]) \in Nat /\ Len(log[s]) \in Nat
      BY <1>4 DEF InHand
    <3> QED BY <3>1, <3>2
  <2>3. CASE s = c
    <3>1. log[c] \in Seq(Store!Task) /\ log'[c] = Append(log[c], x)
      BY <1>1, <1>4, <1>5
    <3> QED BY <1>1, <2>1, <2>2, <2>3, <3>1, HoldsAppend
  <2> QED BY <1>5, <2>1, <2>3
<1> QED BY <1>6, <1>7, <1>8, <1>9, <1>10 DEF OrderInv

\* A client step outside push_task and notify_one touches no queue.
LEMMA OrderQuiet ==
  ASSUME OrderInv, NEW t \in Threads, pc[t] # "notify",
         \A u \in Threads \ {t} : pc'[u] = pc[u] /\ req'[u] = req[u],
         UNCHANGED <<tasks, log, worker, task, storage, applied, closing>>
  PROVE  OrderInv'
<1>1. NoLostWakeup'
  BY DEF OrderInv, NoLostWakeup
<1> QED BY <1>1 DEF OrderInv, LogOnShard, NoTaskLost, InHand, BlockEmpty, Replay

\* A notify wakes the worker of its shard, so it is owed no longer.
LEMMA OrderWake ==
  ASSUME TypeInv, OrderInv, NEW c \in Shards, Wake(c),
         \A u \in Threads : pc[u] = "notify" =>
           getId(req[u].key) = c \/ (pc'[u] = pc[u] /\ req'[u] = req[u]),
         UNCHANGED <<tasks, log, task, storage, applied, closing>>
  PROVE  OrderInv'
<1>1. worker \in [Shards -> {"loop", "lock", "pred", "block", "sleep", "run", "done"}]
  BY DEF TypeInv, TypeOK
<1>2. \A s \in Shards : worker'[s] = worker[s] \/ (worker[s] = "sleep" /\ worker'[s] = "lock")
  BY <1>1 DEF Wake
<1>3. worker'[c] # "sleep"
  BY <1>1 DEF Wake
<1>4. NoLostWakeup'
  <2> SUFFICES ASSUME NEW s \in Shards, worker'[s] = "sleep", tasks[s] # <<>>
               PROVE  \E u \in Threads : pc'[u] = "notify" /\ getId(req'[u].key) = s
    BY DEF NoLostWakeup
  <2>1. PICK u \in Threads : pc[u] = "notify" /\ getId(req[u].key) = s
    BY <1>2 DEF OrderInv, NoLostWakeup
  <2> QED BY <1>3, <2>1
<1>5. LogOnShard' /\ Replay'
  BY DEF OrderInv, LogOnShard, Replay
<1>6. BlockEmpty'
  BY <1>2 DEF OrderInv, BlockEmpty
<1>7. NoTaskLost'
  <2>1. \A s \in Shards : InHand(s)' = InHand(s) /\ (worker'[s] = "run" => worker[s] = "run")
    BY <1>2 DEF InHand
  <2> QED BY <2>1 DEF OrderInv, NoTaskLost
<1> QED BY <1>4, <1>5, <1>6, <1>7 DEF OrderInv

\* The worker moves without a task, and sleeps only on an empty queue.
LEMMA OrderMove ==
  ASSUME TypeInv, OrderInv, NEW s \in Shards,
         NEW from \in {"loop", "lock", "pred", "block", "sleep"},
         NEW to \in {"lock", "pred", "block", "sleep", "done"}, Move(s, from, to),
         to \in {"block", "sleep"} => tasks[s] = <<>>
  PROVE  OrderInv'
<1>1. /\ worker \in [Shards -> {"loop", "lock", "pred", "block", "sleep", "run", "done"}]
      /\ worker[s] # "run" /\ worker' = [worker EXCEPT ![s] = to]
      /\ UNCHANGED <<pc, req, tasks, log, task, storage, applied, closing>>
  BY DEF Move, TypeInv, TypeOK, clientVars, ownerVars
<1>2. NoLostWakeup' /\ BlockEmpty' /\ LogOnShard' /\ Replay'
  BY <1>1 DEF OrderInv, NoLostWakeup, BlockEmpty, LogOnShard, Replay
<1>3. NoTaskLost'
  <2>1. \A r \in Shards : InHand(r)' = InHand(r) /\ (worker'[r] = "run" <=> worker[r] = "run")
    BY <1>1 DEF InHand
  <2> QED BY <1>1, <2>1 DEF OrderInv, NoTaskLost
<1> QED BY <1>2, <1>3 DEF OrderInv

\* Until its shard is destroyed a worker is in its loop, and what NoTaskLost
\* says of the shard holds.
LEMMA LiveShard ==
  ASSUME TypeInv, OrderInv, NEW s \in Shards, worker[s] # "done"
  PROVE  /\ s >= closing
         /\ applied[s] \in Nat /\ Len(tasks[s]) \in Nat /\ Len(log[s]) \in Nat
         /\ applied[s] + InHand(s) + Len(tasks[s]) = Len(log[s])
         /\ \A i \in 1..Len(tasks[s]) : tasks[s][i] = log[s][applied[s] + InHand(s) + i]
<1>1. s \in Int /\ closing \in Int /\ s >= closing
  BY DEF TypeInv, TypeOK, DestroyedInOrder, Shards
<1>2. applied[s] \in Nat /\ Len(tasks[s]) \in Nat /\ Len(log[s]) \in Nat
  BY DEF TypeInv, TypeOK
<1> QED BY <1>1, <1>2 DEF OrderInv, NoTaskLost

\* Taking a task moves it from the head of the queue to the worker's hand.
LEMMA OrderTake ==
  ASSUME TypeInv, OrderInv, NEW s \in Shards, Take(s)
  PROVE  OrderInv'
<1>1. /\ worker \in [Shards -> {"loop", "lock", "pred", "block", "sleep", "run", "done"}]
      /\ tasks \in [Shards -> Seq(Store!Task)] /\ task \in [Shards -> Store!Task \cup {NoTask}]
      /\ worker[s] = "pred" /\ tasks[s] # <<>>
      /\ worker' = [worker EXCEPT ![s] = "run"]
      /\ task' = [task EXCEPT ![s] = Head(tasks[s])]
      /\ tasks' = [tasks EXCEPT ![s] = Tail(@)]
      /\ UNCHANGED <<pc, req, log, storage, applied, closing>>
  BY DEF Take, Front, Pop, TypeInv, TypeOK, clientVars, ownerVars
<1>2. NoLostWakeup' /\ BlockEmpty' /\ LogOnShard' /\ Replay'
  BY <1>1 DEF OrderInv, NoLostWakeup, BlockEmpty, LogOnShard, Replay
<1>3. PICK a \in Nat, n \in Nat : a = applied[s] /\ n = Len(tasks[s])
  BY <1>1, LiveShard
<1>4. a + n = Len(log[s]) /\ \A i \in 1..n : tasks[s][i] = log[s][a + i]
  <2>1. InHand(s) = 0
    BY <1>1 DEF InHand
  <2>2. /\ a + 0 + n = Len(log[s])
        /\ \A i \in 1..n : tasks[s][i] = log[s][a + 0 + i]
    BY <1>1, <1>3, <2>1, LiveShard
  <2>3. a + 0 = a
    OBVIOUS
  <2> QED BY <2>2, <2>3
<1>5. PICK m \in Nat : m = n - 1 /\ n = m + 1
  <2>1. n # 0
    BY <1>1, <1>3
  <2> QED BY <2>1
<1>6. /\ Len(tasks'[s]) = m
      /\ \A i \in 1..m : tasks'[s][i] = tasks[s][i + 1]
      /\ task'[s] = tasks[s][1]
  BY <1>1, <1>3, <1>5
<1>7. (a + 1) + m = Len(log[s]) /\ task'[s] = log[s][a + 1]
  BY <1>4, <1>5, <1>6
<1>8. ASSUME NEW i \in 1..m
      PROVE  tasks'[s][i] = log[s][(a + 1) + i]
  <2>1. i + 1 \in 1..n /\ a + (i + 1) = (a + 1) + i
    BY <1>5
  <2> QED BY <1>4, <1>6, <2>1
<1>9. NoTaskLost'
  <2>1. InHand(s)' = 1 /\ \A r \in Shards \ {s} : InHand(r)' = InHand(r)
    BY <1>1 DEF InHand
  <2>2. \A r \in Shards \ {s} : /\ tasks'[r] = tasks[r] /\ task'[r] = task[r]
                                /\ worker'[r] = worker[r]
    BY <1>1
  <2>3. closing' = closing /\ applied' = applied /\ log' = log
    BY <1>1
  <2>4. /\ applied'[s] + InHand(s)' + Len(tasks'[s]) = Len(log'[s])
        /\ \A i \in 1..Len(tasks'[s]) : tasks'[s][i] = log'[s][applied'[s] + InHand(s)' + i]
        /\ task'[s] = log'[s][applied'[s] + 1]
    BY <1>3, <1>6, <1>7, <1>8, <2>1, <2>3
  <2>5. \A r \in Shards \ {s} : r >= closing' =>
          /\ applied'[r] + InHand(r)' + Len(tasks'[r]) = Len(log'[r])
          /\ \A i \in 1..Len(tasks'[r]) : tasks'[r][i] = log'[r][applied'[r] + InHand(r)' + i]
          /\ worker'[r] = "run" => task'[r] = log'[r][applied'[r] + 1]
    BY <2>1, <2>2, <2>3 DEF OrderInv, NoTaskLost
  <2> QED BY <2>4, <2>5 DEF NoTaskLost
<1> QED BY <1>2, <1>9 DEF OrderInv

\* What a task does to the maps: its key of its shard takes its value.
MapFollows(s) ==
  /\ \A k \in Keys : storage'[s][k] = IF Store!IsWrite(task[s]) /\ task[s].key = k
                                       THEN task[s].val ELSE storage[s][k]
  /\ \A r \in Shards \ {s} : storage'[r] = storage[r]

\* A task that has run counts as applied, and the map has followed it.
LEMMA OrderFinish ==
  ASSUME TypeInv, OrderInv, NEW s \in Shards, Finish(s), MapFollows(s)
  PROVE  OrderInv'
<1>1. /\ worker \in [Shards -> {"loop", "lock", "pred", "block", "sleep", "run", "done"}]
      /\ applied \in [Shards -> Nat] /\ task \in [Shards -> Store!Task \cup {NoTask}]
      /\ worker[s] = "run"
      /\ worker' = [worker EXCEPT ![s] = "loop"]
      /\ task' = [task EXCEPT ![s] = NoTask]
      /\ applied' = [applied EXCEPT ![s] = @ + 1]
      /\ UNCHANGED <<pc, req, log, tasks, closing>>
  BY DEF Finish, TypeInv, TypeOK, clientVars, ownerVars
<1>2. NoLostWakeup' /\ BlockEmpty'
  BY <1>1 DEF OrderInv, NoLostWakeup, BlockEmpty
<1>3. PICK a \in Nat : a = applied[s]
  BY <1>1
<1>4. /\ s >= closing /\ (a + 1) + Len(tasks[s]) = Len(log[s])
      /\ \A i \in 1..Len(tasks[s]) : tasks[s][i] = log[s][(a + 1) + i]
  <2>1. InHand(s) = 1
    BY <1>1 DEF InHand
  <2> QED BY <1>1, <1>3, <2>1, LiveShard
<1>a. applied'[s] = a + 1 /\ \A r \in Shards \ {s} : applied'[r] = applied[r]
  BY <1>1, <1>3
<1>5. NoTaskLost'
  <2>1. InHand(s)' = 0 /\ \A r \in Shards \ {s} : InHand(r)' = InHand(r)
    BY <1>1 DEF InHand
  <2>2. \A r \in Shards \ {s} : task'[r] = task[r] /\ worker'[r] = worker[r]
    BY <1>1
  <2>3. closing' = closing /\ tasks' = tasks /\ log' = log /\ worker'[s] = "loop"
    BY <1>1
  <2>4. /\ applied'[s] + InHand(s)' + Len(tasks'[s]) = Len(log'[s])
        /\ \A i \in 1..Len(tasks'[s]) : tasks'[s][i] = log'[s][applied'[s] + InHand(s)' + i]
    <3>1. applied'[s] + InHand(s)' = a + 1
      BY <1>a, <2>1
    <3> QED BY <1>4, <2>3, <3>1
  <2>5. \A r \in Shards \ {s} : r >= closing' =>
          /\ applied'[r] + InHand(r)' + Len(tasks'[r]) = Len(log'[r])
          /\ \A i \in 1..Len(tasks'[r]) : tasks'[r][i] = log'[r][applied'[r] + InHand(r)' + i]
          /\ worker'[r] = "run" => task'[r] = log'[r][applied'[r] + 1]
    BY <1>a, <2>1, <2>2, <2>3 DEF OrderInv, NoTaskLost
  <2> QED BY <2>3, <2>4, <2>5 DEF NoTaskLost
<1>b. LogOnShard'
  <2>1. a + 1 <= Len(log[s])
    <3>1. PICK l \in Nat, n \in Nat : l = Len(log[s]) /\ n = Len(tasks[s])
      BY <1>1, LiveShard
    <3>2. (a + 1) + n = l
      BY <1>4, <3>1
    <3>3. a + 1 <= l
      BY <3>2
    <3> QED BY <3>1, <3>3
  <2> QED BY <1>1, <1>a, <2>1 DEF OrderInv, LogOnShard
<1>6. Replay'
  <2> SUFFICES ASSUME NEW r \in Shards, NEW k \in Keys
               PROVE  Holds(log[r], k, applied'[r], storage'[r][k])
    BY <1>1 DEF Replay
  <2>1. Holds(log[r], k, applied[r], storage[r][k])
    BY DEF OrderInv, Replay
  <2>2. CASE r = s
    <3>1. task[s] = log[s][applied[s] + 1]
      BY <1>1, <1>4 DEF OrderInv, NoTaskLost
    <3> QED BY <1>3, <1>a, <2>1, <2>2, <3>1, HoldsStep DEF MapFollows
  <2> QED BY <1>a, <2>1, <2>2 DEF MapFollows
<1> QED BY <1>2, <1>5, <1>6, <1>b DEF OrderInv

LEMMA OrderClient ==
  ASSUME TypeInv, OrderInv, NEW t \in Threads, StartCall(t) \/ ClientStep(t)
  PROVE  OrderInv'
<1> USE DEF workerVars, ownerVars
<1>t. pc \in [Threads -> {"idle", "push", "notify", "find", "copy", "await"}]
      /\ req \in [Threads -> Store!Task \cup {NoTask}]
  BY DEF TypeInv, TypeOK
<1>1. CASE StartCall(t)
  BY <1>t, <1>1, OrderQuiet DEF StartCall, SetAsync, RemoveAsync, GetAsync, GetSync, Call
<1>2. CASE PushTask(t)
  BY <1>2, OrderPush
<1>3. CASE NotifyOne(t)
  <2>1. PICK c \in Shards : c = getId(req[t].key)
    BY <1>3, getIdType DEF NotifyOne, TypeInv, RequestsMade, Store!Task
  <2>2. Wake(c) /\ UNCHANGED <<tasks, log, task, storage, applied, closing>>
    BY <1>3, <2>1 DEF NotifyOne
  <2>3. \A u \in Threads \ {t} : pc'[u] = pc[u] /\ req'[u] = req[u]
    BY <1>t, <1>3 DEF NotifyOne, Return
  <2> QED BY <2>1, <2>2, <2>3, OrderWake
<1>4. CASE Await(t) \/ GetFind(t) \/ GetCopy(t)
  BY <1>t, <1>4, OrderQuiet DEF Await, GetFind, GetCopy, Return
<1> QED BY <1>1, <1>2, <1>3, <1>4 DEF ClientStep

LEMMA OrderWorker ==
  ASSUME TypeInv, OrderInv, NEW s \in Shards, WorkerStep(s) \/ SpuriousWake(s)
  PROVE  OrderInv'
<1>1. CASE LoopTest(s) \/ LockTasks(s) \/ PredFalse(s) \/ ExitLoop(s) \/ SpuriousWake(s)
  BY <1>1, OrderMove DEF LoopTest, LockTasks, PredFalse, ExitLoop, SpuriousWake
<1>2. CASE Block(s)
  BY <1>2, OrderMove DEF Block, Move, OrderInv, BlockEmpty
<1>3. CASE Take(s)
  BY <1>3, OrderTake
<1>4. storage \in [Shards -> [Keys -> Store!Maybe]]
      /\ (worker[s] = "run" => task[s] \in Store!Task)
  BY DEF TypeInv, TypeOK, TaskInHand
<1>5. CASE RunSet(s)
  <2>1. Finish(s) /\ storage' = [storage EXCEPT ![s] = [@ EXCEPT ![task[s].key] = task[s].val]]
    BY <1>5 DEF RunSet, Stored
  <2>2. storage[s] \in [Keys -> Store!Maybe]
    BY <1>4
  <2>3. Store!IsWrite(task[s])
    BY <1>5 DEF RunSet, Store!IsWrite
  <2>4. MapFollows(s)
    BY <1>4, <2>1, <2>2, <2>3 DEF MapFollows
  <2> QED BY <2>1, <2>4, OrderFinish
<1>6. CASE RunRemove(s)
  <2>1. task[s].val = NoValue
    BY <1>4, <1>6 DEF RunRemove, Finish, Store!Task
  <2> QED BY <1>4, <1>6, <2>1, OrderFinish DEF MapFollows, RunRemove, Store!IsWrite
<1>7. CASE RunGet(s)
  BY <1>7, OrderFinish DEF MapFollows, RunGet, Store!IsWrite
<1> QED BY <1>1, <1>2, <1>3, <1>5, <1>6, <1>7 DEF WorkerStep

LEMMA OrderOwner ==
  ASSUME TypeInv, OrderInv, BeginDestroy \/ OwnerStep
  PROVE  OrderInv'
<1> USE DEF clientVars, workerVars
<1>1. CASE BeginDestroy \/ StopShard
  BY <1>1 DEF BeginDestroy, StopShard, OrderInv, LogOnShard, NoTaskLost, InHand, BlockEmpty,
              NoLostWakeup, Replay
<1>2. CASE NotifyAll
  <2>1. PICK c \in Shards : c = closing
    BY <1>2 DEF NotifyAll, TypeInv, TypeOK, DestroyedInOrder, Shards
  <2> QED BY <1>2, <2>1, OrderWake DEF NotifyAll
<1>3. CASE JoinAndFree
  <2>1. PICK c \in Shards : c = closing
    BY <1>3 DEF JoinAndFree, Joined, Broke, TypeInv, TypeOK, DestroyedInOrder, Shards
  <2>2. /\ tasks \in [Shards -> Seq(Store!Task)] /\ Shards \subseteq Int
        /\ tasks' = [tasks EXCEPT ![c] = <<>>] /\ closing' = c + 1
        /\ UNCHANGED <<pc, req, log, worker, task, storage, applied>>
    BY <1>3, <2>1 DEF JoinAndFree, Joined, Broke, TypeInv, TypeOK, Shards
  <2>3. LogOnShard' /\ BlockEmpty' /\ NoLostWakeup' /\ Replay'
    BY <2>2 DEF OrderInv, LogOnShard, BlockEmpty, NoLostWakeup, Replay
  <2>4. NoTaskLost'
    <3>1. \A s \in Shards : s >= c + 1 => s # c /\ s >= closing
      BY <2>1, <2>2
    <3>2. \A s \in Shards \ {c} : tasks'[s] = tasks[s]
      BY <2>2
    <3>3. \A s \in Shards : InHand(s)' = InHand(s)
      BY <2>2 DEF InHand
    <3>4. ASSUME NEW s \in Shards, s >= c + 1
          PROVE  /\ applied[s] + InHand(s)' + Len(tasks'[s]) = Len(log[s])
                 /\ \A i \in 1..Len(tasks'[s]) : tasks'[s][i] = log[s][applied[s] + InHand(s)' + i]
                 /\ worker[s] = "run" => task[s] = log[s][applied[s] + 1]
      <4>1. s # c /\ s >= closing /\ tasks'[s] = tasks[s] /\ InHand(s)' = InHand(s)
        BY <3>1, <3>2, <3>3, <3>4
      <4> QED BY <4>1 DEF OrderInv, NoTaskLost
    <3> QED BY <2>2, <3>4 DEF NoTaskLost
  <2> QED BY <2>3, <2>4 DEF OrderInv
<1> QED BY <1>1, <1>2, <1>3 DEF OwnerStep

LEMMA OrderNext == TypeInv /\ OrderInv /\ [Next]_vars => OrderInv'
<1>1. ASSUME OrderInv, UNCHANGED vars PROVE OrderInv'
  BY <1>1 DEF vars, clientVars, workerVars, ownerVars, OrderInv, LogOnShard, NoTaskLost, InHand,
              BlockEmpty, NoLostWakeup, Replay
<1> QED BY <1>1, OrderClient, OrderWorker, OrderOwner DEF Next

LEMMA OrderAlways == Spec => [](TypeInv /\ OrderInv)
  BY TypeInit, TypeNext, OrderInit, OrderNext, PTL DEF Spec

\* No push is missed: with tasks in its queue a worker that sleeps is about to
\* be notified.
THEOREM WorkersAreWoken == Spec => []NoLostWakeup
<1>1. OrderInv => NoLostWakeup
  BY DEF OrderInv
<1> QED BY <1>1, OrderAlways, PTL

\* Until its shard is destroyed, every task pushed is applied, in hand or queued.
THEOREM TasksAreKept == Spec => []NoTaskLost
<1>1. OrderInv => NoTaskLost
  BY DEF OrderInv
<1> QED BY <1>1, OrderAlways, PTL

\* Sets and removes take effect in the order of the pushes, on their own shard.
THEOREM StorageFollowsLog == Spec => []StorageIsReplay
<1>1. TypeInv /\ OrderInv => StorageIsReplay
  <2> SUFFICES ASSUME TypeInv, OrderInv, NEW s \in Shards, NEW k \in Keys
               PROVE  storage[s][k] = IF getId(k) = s THEN Store!ValueAt(log[s], k, applied[s])
                                      ELSE NoValue
    BY DEF StorageIsReplay
  <2>1. Holds(log[s], k, applied[s], storage[s][k]) /\ applied[s] \in Nat
    BY DEF OrderInv, Replay, TypeInv, TypeOK
  <2>2. CASE getId(k) = s
    BY <2>1, <2>2, HoldsValue
  <2>3. CASE getId(k) # s
    <3>1. applied[s] <= Len(log[s]) /\ Len(log[s]) \in Nat
      BY DEF TypeInv, TypeOK, OrderInv, LogOnShard
    <3>2. Store!WritesTo(log[s], k, applied[s]) = {}
      BY <2>1, <2>3, <3>1 DEF OrderInv, LogOnShard, Store!WritesTo
    <3> QED BY <2>1, <2>3, <3>2 DEF Holds
  <2> QED BY <2>2, <2>3
<1> QED BY <1>1, OrderAlways, PTL

-----------------------------------------------------------------------------
\* The answers of the asynchronous and of the synchronous gets

\* A request is logged once it is numbered, and the one that is about to be
\* pushed is not logged yet.
LogFresh ==
  \A s \in Shards : \A i \in 1..Len(log[s]) :
    /\ log[s][i].id <= calls[log[s][i].by]
    /\ pc[log[s][i].by] = "push" => log[s][i].id < calls[log[s][i].by]

\* No request is logged twice, so that no two tasks share a promise.
LogUnique ==
  \A r, s \in Shards : \A i \in 1..Len(log[r]), j \in 1..Len(log[s]) :
    log[r][i].by = log[s][j].by /\ log[r][i].id = log[s][j].id => r = s /\ i = j

\* A promise neither kept nor broken is that of a task which has yet to run.
PendingLogged ==
  \A t \in Threads, n \in 1..MaxOps :
    promise[t][n].st = "pending" => \E s \in Shards : s >= closing /\ Store!Abandoned(s, t, n)

\* AsyncReadsExact with a witness.
AnswersExact ==
  \A s \in Shards : \A i \in 1..applied[s] : log[s][i].op = "get" =>
    LET p == promise[log[s][i].by][log[s][i].id] IN
    /\ p = [st |-> "ready", val |-> p.val]
    /\ Holds(log[s], log[s][i].key, i - 1, p.val)

AnswerInv == IteratorStaysValid /\ LogFresh /\ LogUnique /\ PendingLogged /\ AnswersExact

\* A reader past find() holds the shared lock that the worker needs to write.
LEMMA IteratorNext == TypeInv /\ IteratorStaysValid /\ [Next]_vars => IteratorStaysValid'
<1> SUFFICES ASSUME TypeInv, IteratorStaysValid, [Next]_vars PROVE IteratorStaysValid'
  OBVIOUS
<1> USE DEF clientVars, workerVars, ownerVars
<1>t. /\ pc \in [Threads -> {"idle", "push", "notify", "find", "copy", "await"}]
      /\ req \in [Threads -> Store!Task \cup {NoTask}]
      /\ storage \in [Shards -> [Keys -> Store!Maybe]]
  BY DEF TypeInv, TypeOK
<1>k. \A t \in Threads : pc[t] = "copy" => req[t].key \in Keys
  BY DEF TypeInv, RequestsMade, Store!Task
<1>1. ASSUME storage' = storage,
             \A t \in Threads : pc'[t] = "copy" =>
               req'[t] = req[t] /\ (pc[t] = "copy" \/ storage[getId(req[t].key)][req[t].key] # NoValue)
      PROVE  IteratorStaysValid'
  BY <1>1 DEF IteratorStaysValid
<1>2. ASSUME NEW t \in Threads, StartCall(t) PROVE IteratorStaysValid'
  BY <1>t, <1>1, <1>2 DEF StartCall, SetAsync, RemoveAsync, GetAsync, GetSync, Call
<1>3. ASSUME NEW t \in Threads, ClientStep(t) PROVE IteratorStaysValid'
  BY <1>t, <1>1, <1>3 DEF ClientStep, PushTask, NotifyOne, Await, GetFind, GetCopy, Return
<1>4. ASSUME NEW s \in Shards, RunSet(s) \/ RunRemove(s) PROVE IteratorStaysValid'
  <2>1. /\ Readers(s) = {} /\ UNCHANGED <<pc, req>>
        /\ \A c \in Shards \ {s} : storage'[c] = storage[c]
    BY <1>t, <1>4 DEF RunSet, RunRemove, Finish
  <2> SUFFICES ASSUME NEW t \in Threads, pc[t] = "copy"
               PROVE  storage'[getId(req[t].key)][req[t].key] # NoValue
    BY <2>1 DEF IteratorStaysValid
  <2>2. getId(req[t].key) \in Shards \ {s}
    BY <1>k, <2>1, getIdType DEF Readers
  <2> QED BY <2>1, <2>2 DEF IteratorStaysValid
<1>5. ASSUME NEW s \in Shards, WorkerStep(s) \/ SpuriousWake(s), ~RunSet(s), ~RunRemove(s)
      PROVE  IteratorStaysValid'
  BY <1>1, <1>5 DEF WorkerStep, LoopTest, LockTasks, PredFalse, Block, ExitLoop, SpuriousWake, Move,
                    Take, RunGet, Finish
<1>6. ASSUME BeginDestroy \/ OwnerStep PROVE IteratorStaysValid'
  BY <1>1, <1>6 DEF BeginDestroy, OwnerStep, StopShard, NotifyAll, JoinAndFree
<1>7. ASSUME UNCHANGED vars PROVE IteratorStaysValid'
  BY <1>1, <1>7 DEF vars
<1> QED BY <1>2, <1>3, <1>4, <1>5, <1>6, <1>7 DEF Next

\* A logged task names a thread and one of its calls.
LEMMA LoggedTask ==
  ASSUME TypeInv, NEW s \in Shards
  PROVE  /\ Len(log[s]) \in Nat /\ applied[s] \in Nat
         /\ \A i \in 1..Len(log[s]) : /\ log[s][i] \in Store!Task
                                      /\ log[s][i].by \in Threads
                                      /\ log[s][i].id \in 1..MaxOps
<1>1. log[s] \in Seq(Store!Task) /\ applied[s] \in Nat
  BY DEF TypeInv, TypeOK
<1>2. \A x \in Store!Task : x.by \in Threads /\ x.id \in 1..MaxOps
  BY DEF Store!Task
<1> QED BY <1>1, <1>2

\* What depends on the logs and the promises only.
LEMMA LogsKept ==
  ASSUME LogUnique, PendingLogged, AnswersExact, UNCHANGED <<log, applied, promise, closing>>
  PROVE  LogUnique' /\ PendingLogged' /\ AnswersExact'
<1>1. LogUnique'
  BY DEF LogUnique
<1>2. PendingLogged'
  BY DEF PendingLogged, Store!Abandoned
<1>3. AnswersExact'
  <2> SUFFICES ASSUME NEW s \in Shards, NEW i \in 1..applied[s], log[s][i].op = "get"
               PROVE  LET p == promise[log[s][i].by][log[s][i].id] IN
                      /\ p = [st |-> "ready", val |-> p.val]
                      /\ Holds(log[s], log[s][i].key, i - 1, p.val)
    BY DEF AnswersExact
  <2> QED BY DEF AnswersExact
<1> QED BY <1>1, <1>2, <1>3

\* What a get waits for or has got outlives every step that leaves the logs and
\* the promises alone and numbers requests upwards.
LEMMA AnswerQuiet ==
  ASSUME TypeInv, LogFresh, LogUnique, PendingLogged, AnswersExact,
         UNCHANGED <<log, applied, promise, closing>>,
         \A t \in Threads : \/ calls'[t] = calls[t] /\ (pc'[t] = "push" => pc[t] = "push")
                            \/ calls'[t] = calls[t] + 1
  PROVE  LogFresh' /\ LogUnique' /\ PendingLogged' /\ AnswersExact'
<1>1. LogUnique' /\ PendingLogged' /\ AnswersExact'
  BY LogsKept
<1>2. LogFresh'
  <2> SUFFICES ASSUME NEW s \in Shards, NEW i \in 1..Len(log[s])
               PROVE  /\ log[s][i].id <= calls'[log[s][i].by]
                      /\ pc'[log[s][i].by] = "push" => log[s][i].id < calls'[log[s][i].by]
    BY DEF LogFresh
  <2>2. PICK t \in Threads, n \in 1..MaxOps : t = log[s][i].by /\ n = log[s][i].id
    BY LoggedTask
  <2>3. n <= calls[t] /\ (pc[t] = "push" => n < calls[t]) /\ calls[t] \in Int
    BY <2>2 DEF LogFresh, TypeInv, TypeOK
  <2>4. n <= calls'[t] /\ (pc'[t] = "push" => n < calls'[t])
    BY <2>3
  <2> QED BY <2>2, <2>4
<1> QED BY <1>1, <1>2

\* A push logs the request that its thread has just numbered, and its promise.
LEMMA AnswerPush ==
  ASSUME TypeInv, OrderInv, LogFresh, LogUnique, PendingLogged, AnswersExact,
         NEW t \in Threads, PushTask(t)
  PROVE  LogFresh' /\ LogUnique' /\ PendingLogged' /\ AnswersExact'
<1>r. req[t] \in Store!Task /\ getId(req[t].key) \in Shards /\ req[t].by = t /\ req[t].id = calls[t]
  BY getIdType DEF PushTask, TypeInv, RequestsMade, Store!Task
<1>c. PICK c \in Shards, x \in Store!Task : c = getId(x.key) /\ x = req[t]
  BY <1>r
<1>1. /\ log' = [log EXCEPT ![c] = Append(@, x)]
      /\ promise' = IF x.op = "get"
                    THEN [promise EXCEPT ![t][x.id] = [st |-> "pending", val |-> NoValue]]
                    ELSE promise
      /\ pc[t] = "push" /\ pc' = [pc EXCEPT ![t] = "notify"]
      /\ UNCHANGED <<calls, applied, closing>>
  BY <1>c DEF PushTask, workerVars, ownerVars
<1>u. applied' = applied /\ closing' = closing
  BY <1>1
<1>2. closing = 0 /\ x.by = t /\ x.id = calls[t] /\ x.id \in 1..MaxOps
  BY <1>r, <1>c, <1>1 DEF TypeInv, TypeOK, DestroyedInOrder, Store!Task
<1>3. /\ log \in [Shards -> Seq(Store!Task)]
      /\ applied \in [Shards -> Nat] /\ Shards \subseteq Nat
      /\ calls \in [Threads -> 0..MaxOps]
      /\ promise \in [Threads -> [1..MaxOps -> Store!Promise]]
      /\ pc \in [Threads -> {"idle", "push", "notify", "find", "copy", "await"}]
  BY DEF TypeInv, TypeOK, Shards
<1>4. PICK m \in Nat : m = Len(log[c])
  BY <1>3
<1>5. /\ \A s \in Shards \ {c} : log'[s] = log[s]
      /\ log'[c] = Append(log[c], x) /\ Len(log'[c]) = m + 1 /\ log'[c][m + 1] = x
      /\ \A i \in 1..m : log'[c][i] = log[c][i]
  BY <1>1, <1>3, <1>4
<1>6. \A s \in Shards : \A i \in 1..Len(log'[s]) :
        (i \in 1..Len(log[s]) /\ log'[s][i] = log[s][i]) \/ (s = c /\ i = m + 1)
  BY <1>4, <1>5
<1>7. \A s \in Shards : \A i \in 1..Len(log[s]) :
        /\ i \in 1..Len(log'[s]) /\ log'[s][i] = log[s][i]
        /\ ~(log[s][i].by = t /\ log[s][i].id = x.id)
  <2> SUFFICES ASSUME NEW s \in Shards, NEW i \in 1..Len(log[s])
               PROVE  /\ i \in 1..Len(log'[s]) /\ log'[s][i] = log[s][i]
                      /\ ~(log[s][i].by = t /\ log[s][i].id = x.id)
    OBVIOUS
  <2>1. i \in 1..Len(log'[s]) /\ log'[s][i] = log[s][i]
    BY <1>4, <1>5
  <2>2. log[s][i].by = t => log[s][i].id < calls[t]
    BY <1>1 DEF LogFresh
  <2>3. x.id = calls[t] /\ calls[t] \in Int
    BY <1>2, <1>3
  <2>4. ASSUME log[s][i].by = t, log[s][i].id = x.id PROVE FALSE
    BY <2>2, <2>3, <2>4
  <2> QED BY <2>1, <2>4
<1>8. LogFresh'
  <2> SUFFICES ASSUME NEW s \in Shards, NEW i \in 1..Len(log'[s])
               PROVE  /\ log'[s][i].id <= calls[log'[s][i].by]
                      /\ pc'[log'[s][i].by] = "push" => log'[s][i].id < calls[log'[s][i].by]
    BY <1>1 DEF LogFresh
  <2>1. CASE i \in 1..Len(log[s]) /\ log'[s][i] = log[s][i]
    <3>1. log[s][i].by \in Threads
      BY <2>1, LoggedTask
    <3>2. pc'[log[s][i].by] = "push" => pc[log[s][i].by] = "push"
      BY <1>1, <1>3, <3>1
    <3> QED BY <2>1, <3>2 DEF LogFresh
  <2>2. CASE s = c /\ i = m + 1
    BY <1>1, <1>2, <1>3, <1>5, <2>2
  <2> QED BY <1>6, <2>1, <2>2
<1>9. LogUnique'
  <2> SUFFICES ASSUME NEW r \in Shards, NEW s \in Shards,
                      NEW i \in 1..Len(log'[r]), NEW j \in 1..Len(log'[s]),
                      log'[r][i].by = log'[s][j].by, log'[r][i].id = log'[s][j].id
               PROVE  r = s /\ i = j
    BY DEF LogUnique
  <2>1. CASE i \in 1..Len(log[r]) /\ j \in 1..Len(log[s])
    <3>1. log'[r][i] = log[r][i] /\ log'[s][j] = log[s][j]
      BY <1>7, <2>1
    <3> QED BY <2>1, <3>1 DEF LogUnique
  <2>2. CASE r = c /\ i = m + 1 /\ j \in 1..Len(log[s])
    <3>1. log'[r][i].by = t /\ log'[r][i].id = x.id /\ log'[s][j] = log[s][j]
      BY <1>2, <1>5, <1>7, <2>2
    <3> QED BY <1>7, <2>2, <3>1
  <2>3. CASE s = c /\ j = m + 1 /\ i \in 1..Len(log[r])
    <3>1. log'[s][j].by = t /\ log'[s][j].id = x.id /\ log'[r][i] = log[r][i]
      BY <1>2, <1>5, <1>7, <2>3
    <3> QED BY <1>7, <2>3, <3>1
  <2> QED BY <1>6, <2>1, <2>2, <2>3
<1>10. PendingLogged'
  <2> SUFFICES ASSUME NEW u \in Threads, NEW n \in 1..MaxOps, promise'[u][n].st = "pending"
               PROVE  \E s \in Shards : /\ s >= closing
                                        /\ \E i \in applied[s] + 1 .. Len(log'[s]) :
                                             /\ log'[s][i].op = "get" /\ log'[s][i].by = u
                                             /\ log'[s][i].id = n
    BY <1>u DEF PendingLogged, Store!Abandoned
  <2>1. CASE x.op = "get" /\ u = t /\ n = x.id
    <3>1. applied[c] <= m /\ applied[c] \in Nat
      BY <1>3, <1>4 DEF OrderInv, LogOnShard
    <3>2. m + 1 \in applied[c] + 1 .. Len(log'[c])
      BY <1>5, <3>1
    <3>3. c >= closing
      BY <1>2, <1>3
    <3> QED BY <1>2, <1>5, <2>1, <3>2, <3>3
  <2>2. CASE ~(x.op = "get" /\ u = t /\ n = x.id)
    <3>1. promise[u][n].st = "pending"
      BY <1>1, <1>3, <2>2
    <3>2. PICK s \in Shards : s >= closing /\ \E i \in applied[s] + 1 .. Len(log[s]) :
                                log[s][i].op = "get" /\ log[s][i].by = u /\ log[s][i].id = n
      BY <3>1 DEF PendingLogged, Store!Abandoned
    <3>3. PICK i \in applied[s] + 1 .. Len(log[s]) :
                 log[s][i].op = "get" /\ log[s][i].by = u /\ log[s][i].id = n
      BY <3>2
    <3>4. i \in 1..Len(log[s]) /\ i \in applied[s] + 1 .. Len(log'[s])
      <4>1. PICK a \in Nat, l \in Nat : a = applied[s] /\ l = Len(log[s])
        BY LoggedTask
      <4>2. i \in a + 1 .. l
        BY <3>3, <4>1
      <4>3. i \in 1..l
        BY <4>2
      <4>4. Len(log'[s]) \in Nat /\ l <= Len(log'[s])
        BY <1>4, <1>5, <4>1
      <4> QED BY <4>1, <4>2, <4>3, <4>4
    <3> QED BY <1>7, <3>2, <3>3, <3>4
  <2> QED BY <2>1, <2>2
<1>11. AnswersExact'
  <2> SUFFICES ASSUME NEW s \in Shards, NEW i \in 1..applied[s], log'[s][i].op = "get"
               PROVE  LET p == promise'[log'[s][i].by][log'[s][i].id] IN
                      /\ p = [st |-> "ready", val |-> p.val]
                      /\ Holds(log'[s], log'[s][i].key, i - 1, p.val)
    BY <1>1 DEF AnswersExact
  <2>1. applied[s] \in Nat /\ applied[s] <= Len(log[s]) /\ Len(log[s]) \in Nat
    BY LoggedTask DEF OrderInv, LogOnShard
  <2>2. i \in 1..Len(log[s]) /\ log'[s][i] = log[s][i] /\ i - 1 \in 0..Len(log[s])
    BY <1>7, <2>1
  <2>3. PICK u \in Threads, n \in 1..MaxOps : u = log[s][i].by /\ n = log[s][i].id
    BY <2>2, LoggedTask
  <2>4. promise'[u][n] = promise[u][n]
    BY <1>1, <1>3, <1>7, <2>2, <2>3
  <2>5. /\ promise[u][n] = [st |-> "ready", val |-> promise[u][n].val]
        /\ Holds(log[s], log[s][i].key, i - 1, promise[u][n].val)
    BY <2>2, <2>3 DEF AnswersExact
  <2>6. Holds(log'[s], log[s][i].key, i - 1, promise[u][n].val)
    <3>1. CASE s = c
      <4>1. log[s] \in Seq(Store!Task) /\ log'[s] = Append(log[s], x)
        BY <1>3, <1>5, <3>1
      <4> QED BY <2>2, <2>5, <4>1, HoldsAppend
    <3> QED BY <1>5, <2>5, <3>1
  <2> QED BY <2>2, <2>3, <2>4, <2>5, <2>6
<1> QED BY <1>8, <1>9, <1>10, <1>11

\* The task in a worker's hand is the first of its shard's log that has not run,
\* and the map is what the tasks before it left.
LEMMA InHandIsNext ==
  ASSUME TypeInv, OrderInv, NEW s \in Shards, worker[s] = "run"
  PROVE  /\ s >= closing
         /\ applied[s] \in Nat /\ applied[s] + 1 \in 1..Len(log[s])
         /\ task[s] = log[s][applied[s] + 1] /\ task[s] \in Store!Task
         /\ storage[s][task[s].key] = Store!ValueAt(log[s], task[s].key, applied[s])
<1>1. task[s] \in Store!Task /\ task[s].key \in Keys
  BY DEF TypeInv, TaskInHand, Store!Task
<1>2. InHand(s) = 1
  BY DEF InHand
<1>3. PICK a \in Nat, n \in Nat, l \in Nat : a = applied[s] /\ n = Len(tasks[s]) /\ l = Len(log[s])
  BY LiveShard
<1>4. s >= closing /\ a + 1 + n = l
  BY <1>2, <1>3, LiveShard
<1>5. a + 1 \in 1..l
  BY <1>4
<1>6. task[s] = log[s][applied[s] + 1]
  BY <1>4 DEF OrderInv, NoTaskLost
<1>7. Holds(log[s], task[s].key, a, storage[s][task[s].key])
  BY <1>1, <1>3 DEF OrderInv, Replay
<1> QED BY <1>1, <1>3, <1>4, <1>5, <1>6, <1>7, HoldsValue

\* The request of the task in hand is nowhere else in the logs.
LEMMA InHandIsOnce ==
  ASSUME TypeInv, OrderInv, LogUnique, NEW s \in Shards, worker[s] = "run"
  PROVE  \A r \in Shards : \A i \in 1..Len(log[r]) :
           log[r][i].by = task[s].by /\ log[r][i].id = task[s].id => r = s /\ i = applied[s] + 1
<1>1. PICK j \in 1..Len(log[s]) : j = applied[s] + 1 /\ log[s][j] = task[s]
  BY InHandIsNext
<1> QED BY <1>1 DEF LogUnique

\* A get that runs keeps its own promise, with what the tasks before it left; a
\* set or a remove keeps none.
LEMMA AnswerRun ==
  ASSUME TypeInv, OrderInv, LogFresh, LogUnique, PendingLogged, AnswersExact,
         NEW s \in Shards, Finish(s),
         IF task[s].op = "get"
         THEN promise' = [promise EXCEPT ![task[s].by][task[s].id] =
                            [st |-> "ready", val |-> storage[s][task[s].key]]]
         ELSE promise' = promise
  PROVE  LogFresh' /\ LogUnique' /\ PendingLogged' /\ AnswersExact'
<1>1. /\ applied' = [applied EXCEPT ![s] = @ + 1] /\ worker[s] = "run"
      /\ log' = log /\ calls' = calls /\ pc' = pc /\ closing' = closing
  BY DEF Finish, clientVars, ownerVars
<1>2. PICK a \in Nat, x \in Store!Task : a = applied[s] /\ x = task[s] /\ x = log[s][a + 1]
                                         /\ a + 1 \in 1..Len(log[s])
  BY <1>1, InHandIsNext
<1>3. PICK b \in Threads, d \in 1..MaxOps : b = x.by /\ d = x.id
  BY <1>2 DEF Store!Task
<1>4. /\ applied \in [Shards -> Nat] /\ promise \in [Threads -> [1..MaxOps -> Store!Promise]]
      /\ applied'[s] = a + 1 /\ \A r \in Shards \ {s} : applied'[r] = applied[r]
  BY <1>1, <1>2 DEF TypeInv, TypeOK
<1>5. /\ x.op = "get" => /\ promise'[b][d].st = "ready"
                         /\ promise'[b][d] = [st |-> "ready", val |-> promise'[b][d].val]
                         /\ promise'[b][d].val = storage[s][x.key]
      /\ \A u \in Threads, n \in 1..MaxOps :
           ~(x.op = "get" /\ u = b /\ n = d) => promise'[u][n] = promise[u][n]
  <2>1. x.op = "get" => promise' = [promise EXCEPT ![b][d] = [st |-> "ready", val |-> storage[s][x.key]]]
    BY <1>2, <1>3
  <2>2. x.op # "get" => promise' = promise
    BY <1>2
  <2> QED BY <1>4, <2>1, <2>2
<1>6. \A r \in Shards : \A i \in 1..Len(log[r]) :
        log[r][i].by = b /\ log[r][i].id = d => r = s /\ i = a + 1
  BY <1>1, <1>2, <1>3, InHandIsOnce
<1>7. LogFresh' /\ LogUnique'
  <2>1. LogFresh'
    BY <1>1 DEF LogFresh
  <2>2. LogUnique'
    BY <1>1 DEF LogUnique
  <2> QED BY <2>1, <2>2
<1>8. PendingLogged'
  <2> SUFFICES ASSUME NEW u \in Threads, NEW n \in 1..MaxOps, promise'[u][n].st = "pending"
               PROVE  \E r \in Shards : /\ r >= closing
                                        /\ \E i \in applied'[r] + 1 .. Len(log[r]) :
                                             /\ log[r][i].op = "get" /\ log[r][i].by = u
                                             /\ log[r][i].id = n
    BY <1>1 DEF PendingLogged, Store!Abandoned
  <2>0. ~(x.op = "get" /\ u = b /\ n = d)
    <3>1. x.op = "get" => promise'[b][d].st = "ready"
      BY <1>5
    <3> QED BY <3>1
  <2>1. promise[u][n].st = "pending" /\ ~(x.op = "get" /\ u = b /\ n = d)
    <3>1. promise'[u][n] = promise[u][n]
      BY <1>5, <2>0
    <3> QED BY <2>0, <3>1
  <2>2. PICK r \in Shards : r >= closing /\ \E i \in applied[r] + 1 .. Len(log[r]) :
                              log[r][i].op = "get" /\ log[r][i].by = u /\ log[r][i].id = n
    <3>1. PICK r \in Shards : r >= closing /\ Store!Abandoned(r, u, n)
      BY <2>1 DEF PendingLogged
    <3> QED BY <3>1 DEF Store!Abandoned
  <2>3. PICK i \in applied[r] + 1 .. Len(log[r]) :
               log[r][i].op = "get" /\ log[r][i].by = u /\ log[r][i].id = n
    BY <2>2
  <2>4. CASE r = s
    <3>1. i # a + 1
      BY <1>2, <1>3, <2>1, <2>3, <2>4
    <3>2. i \in a + 1 .. Len(log[s]) /\ Len(log[s]) \in Nat
      BY <1>2, <2>3, <2>4, LoggedTask
    <3>3. i \in (a + 1) + 1 .. Len(log[s])
      BY <3>1, <3>2
    <3> QED BY <1>4, <2>2, <2>3, <2>4, <3>3
  <2>5. CASE r # s
    <3>1. applied'[r] = applied[r]
      BY <1>4, <2>5
    <3> QED BY <2>2, <2>3, <3>1
  <2> QED BY <2>4, <2>5
<1>9. AnswersExact'
  <2> SUFFICES ASSUME NEW r \in Shards, NEW i \in 1..applied'[r], log[r][i].op = "get"
               PROVE  LET p == promise'[log[r][i].by][log[r][i].id] IN
                      /\ p = [st |-> "ready", val |-> p.val]
                      /\ Holds(log[r], log[r][i].key, i - 1, p.val)
    BY <1>1 DEF AnswersExact
  <2>1. CASE r = s /\ i = a + 1
    <3>1. Holds(log[s], x.key, a, storage[s][x.key])
      BY <1>2 DEF OrderInv, Replay, Store!Task
    <3>2. i - 1 = a /\ log[r][i] = x
      BY <1>2, <2>1
    <3> QED BY <1>3, <1>5, <2>1, <3>1, <3>2
  <2>2. CASE ~(r = s /\ i = a + 1)
    <3>1. i \in 1..applied[r]
      BY <1>2, <1>4, <2>2
    <3>2. i \in 1..Len(log[r])
      BY <3>1, LoggedTask DEF OrderInv, LogOnShard
    <3>3. PICK u \in Threads, n \in 1..MaxOps : u = log[r][i].by /\ n = log[r][i].id
      BY <3>2, LoggedTask
    <3>4. ~(u = b /\ n = d)
      <4> SUFFICES ASSUME u = b, n = d PROVE FALSE
        OBVIOUS
      <4>1. r = s /\ i = a + 1
        BY <1>6, <3>2, <3>3
      <4> QED BY <2>2, <4>1
    <3>5. promise'[u][n] = promise[u][n]
      BY <1>5, <3>4
    <3> QED BY <3>1, <3>3, <3>5 DEF AnswersExact
  <2> QED BY <2>1, <2>2
<1> QED BY <1>7, <1>8, <1>9

\* Once a worker has left its loop, what is queued is what was logged and has
\* not run.
LEMMA DroppedIsAbandoned ==
  ASSUME TypeInv, OrderInv, NEW s \in Shards, s >= closing, worker[s] # "run",
         NEW t \in Threads, NEW n \in 1..MaxOps
  PROVE  Dropped(s, t, n) <=> Store!Abandoned(s, t, n)
<1>1. PICK a \in Nat, q \in Nat, l \in Nat : a = applied[s] /\ q = Len(tasks[s]) /\ l = Len(log[s])
  BY DEF TypeInv, TypeOK
<1>2. a + 0 + q = l /\ \A i \in 1..q : tasks[s][i] = log[s][a + 0 + i]
  BY <1>1 DEF OrderInv, NoTaskLost, InHand
<1>3. a + q = l /\ \A i \in 1..q : tasks[s][i] = log[s][a + i]
  BY <1>2
<1>4. ASSUME Dropped(s, t, n) PROVE Store!Abandoned(s, t, n)
  <2>1. PICK i \in 1..q : tasks[s][i].op = "get" /\ tasks[s][i].by = t /\ tasks[s][i].id = n
    BY <1>1, <1>4 DEF Dropped
  <2>2. a + i \in a + 1 .. l /\ tasks[s][i] = log[s][a + i]
    BY <1>3
  <2> QED BY <1>1, <2>1, <2>2 DEF Store!Abandoned
<1>5. ASSUME Store!Abandoned(s, t, n) PROVE Dropped(s, t, n)
  <2>1. PICK j \in a + 1 .. l : log[s][j].op = "get" /\ log[s][j].by = t /\ log[s][j].id = n
    BY <1>1, <1>5 DEF Store!Abandoned
  <2>2. j - a \in 1..q /\ a + (j - a) = j
    BY <1>3
  <2>3. tasks[s][j - a] = log[s][j]
    BY <1>3, <2>2
  <2> QED BY <1>1, <2>1, <2>2, <2>3 DEF Dropped
<1> QED BY <1>4, <1>5

\* Destroying a shard breaks the promises of the tasks it will never run, and
\* leaves alone those that are kept and those of other shards.
LEMMA AnswerFree ==
  ASSUME TypeInv, OrderInv, LogFresh, LogUnique, PendingLogged, AnswersExact, JoinAndFree
  PROVE  LogFresh' /\ LogUnique' /\ PendingLogged' /\ AnswersExact'
<1>1. PICK c \in Shards : c = closing /\ worker[c] = "done"
  BY DEF JoinAndFree, Joined, TypeInv, TypeOK, DestroyedInOrder, Shards
<1>2. /\ promise' = Broke(c) /\ closing' = c + 1
      /\ log' = log /\ applied' = applied /\ calls' = calls /\ pc' = pc
  BY <1>1 DEF JoinAndFree, clientVars, workerVars
<1>3. \A t \in Threads, n \in 1..MaxOps :
        promise'[t][n] = IF Store!Abandoned(c, t, n) THEN Broken ELSE promise[t][n]
  <2>1. Shards \subseteq Int
    BY DEF Shards
  <2>2. c >= closing
    BY <1>1, <2>1
  <2> QED BY <1>1, <1>2, <2>2, DroppedIsAbandoned DEF Broke
<1>4. LogFresh' /\ LogUnique'
  BY <1>2 DEF LogFresh, LogUnique
<1>5. PendingLogged'
  <2> SUFFICES ASSUME NEW t \in Threads, NEW n \in 1..MaxOps, promise'[t][n].st = "pending"
               PROVE  \E s \in Shards : s >= c + 1 /\ Store!Abandoned(s, t, n)
    BY <1>2 DEF PendingLogged, Store!Abandoned
  <2>1. promise[t][n].st = "pending" /\ ~Store!Abandoned(c, t, n)
    BY <1>3 DEF Broken
  <2>2. PICK s \in Shards : s >= c /\ Store!Abandoned(s, t, n)
    BY <1>1, <2>1 DEF PendingLogged
  <2>3. s >= c + 1
    BY <2>1, <2>2 DEF Shards
  <2> QED BY <2>2, <2>3
<1>6. AnswersExact'
  <2> SUFFICES ASSUME NEW s \in Shards, NEW i \in 1..applied[s], log[s][i].op = "get"
               PROVE  LET p == promise'[log[s][i].by][log[s][i].id] IN
                      /\ p = [st |-> "ready", val |-> p.val]
                      /\ Holds(log[s], log[s][i].key, i - 1, p.val)
    BY <1>2 DEF AnswersExact
  <2>1. i \in 1..Len(log[s])
    BY LoggedTask DEF OrderInv, LogOnShard
  <2>2. PICK t \in Threads, n \in 1..MaxOps : t = log[s][i].by /\ n = log[s][i].id
    BY <2>1, LoggedTask
  <2>3. ~Store!Abandoned(c, t, n)
    <3> SUFFICES ASSUME NEW j \in applied[c] + 1 .. Len(log[c]),
                        log[c][j].by = t, log[c][j].id = n
                 PROVE  FALSE
      BY DEF Store!Abandoned
    <3>1. applied[c] \in Nat /\ Len(log[c]) \in Nat
      BY LoggedTask
    <3>2. j \in 1..Len(log[c]) /\ j > applied[c]
      BY <3>1
    <3>3. s = c /\ i = j
      BY <2>1, <2>2, <3>2 DEF LogUnique
    <3> QED BY <3>1, <3>2, <3>3
  <2>4. promise'[t][n] = promise[t][n]
    BY <1>3, <2>3
  <2> QED BY <2>2, <2>4 DEF AnswersExact
<1> QED BY <1>4, <1>5, <1>6

LEMMA AnswerInit == Init => AnswerInv
<1> SUFFICES ASSUME Init PROVE AnswerInv
  OBVIOUS
<1>1. \A s \in Shards : applied[s] = 0 /\ Len(log[s]) = 0 /\ 1..0 = {}
  BY DEF Init
<1>2. LogFresh /\ LogUnique /\ AnswersExact
  BY <1>1 DEF LogFresh, LogUnique, AnswersExact
<1>3. IteratorStaysValid /\ PendingLogged
  BY DEF Init, IteratorStaysValid, PendingLogged
<1> QED BY <1>2, <1>3 DEF AnswerInv

LEMMA AnswerNext == TypeInv /\ OrderInv /\ AnswerInv /\ [Next]_vars => AnswerInv'
<1> SUFFICES ASSUME TypeInv, OrderInv, AnswerInv, [Next]_vars PROVE AnswerInv'
  OBVIOUS
<1> DEFINE Rest == LogFresh /\ LogUnique /\ PendingLogged /\ AnswersExact
<1>i. LogFresh /\ LogUnique /\ PendingLogged /\ AnswersExact /\ IteratorStaysValid'
  BY IteratorNext DEF AnswerInv
<1>t. /\ pc \in [Threads -> {"idle", "push", "notify", "find", "copy", "await"}]
      /\ calls \in [Threads -> 0..MaxOps]
  BY DEF TypeInv, TypeOK
<1> USE DEF clientVars, workerVars, ownerVars
<1>1. ASSUME NEW t \in Threads, StartCall(t) PROVE Rest'
  <2>1. /\ calls' = [calls EXCEPT ![t] = @ + 1]
        /\ \E first \in {"push", "find"} : pc' = [pc EXCEPT ![t] = first]
        /\ UNCHANGED <<log, applied, promise, closing>>
    BY <1>1 DEF StartCall, SetAsync, RemoveAsync, GetAsync, GetSync, Call
  <2>2. \A u \in Threads : \/ calls'[u] = calls[u] /\ (pc'[u] = "push" => pc[u] = "push")
                           \/ calls'[u] = calls[u] + 1
    BY <1>t, <2>1
  <2> QED BY <1>i, <2>1, <2>2, AnswerQuiet
<1>2. ASSUME NEW t \in Threads, PushTask(t) PROVE Rest'
  BY <1>i, <1>2, AnswerPush
<1>3. ASSUME NEW t \in Threads, NotifyOne(t) \/ Await(t) \/ GetFind(t) \/ GetCopy(t) PROVE Rest'
  <2>1. /\ \E to \in {"idle", "await", "copy"} : pc' = [pc EXCEPT ![t] = to]
        /\ UNCHANGED <<calls, log, applied, promise, closing>>
    BY <1>3 DEF NotifyOne, Await, GetFind, GetCopy, Return
  <2>2. \A u \in Threads : calls'[u] = calls[u] /\ (pc'[u] = "push" => pc[u] = "push")
    BY <1>t, <2>1
  <2> QED BY <1>i, <2>1, <2>2, AnswerQuiet
<1>4. ASSUME NEW s \in Shards, RunSet(s) \/ RunRemove(s) \/ RunGet(s) PROVE Rest'
  BY <1>i, <1>4, AnswerRun DEF RunSet, RunRemove, RunGet
<1>5. ASSUME NEW s \in Shards, WorkerStep(s) \/ SpuriousWake(s),
             ~(RunSet(s) \/ RunRemove(s) \/ RunGet(s))
      PROVE  Rest'
  <2>1. UNCHANGED <<pc, calls, log, applied, promise, closing>>
    BY <1>5 DEF WorkerStep, LoopTest, LockTasks, PredFalse, Block, ExitLoop, SpuriousWake, Move, Take
  <2> QED BY <1>i, <2>1, AnswerQuiet
<1>6. ASSUME BeginDestroy \/ StopShard \/ NotifyAll PROVE Rest'
  <2>1. UNCHANGED <<pc, calls, log, applied, promise, closing>>
    BY <1>6 DEF BeginDestroy, StopShard, NotifyAll
  <2> QED BY <1>i, <2>1, AnswerQuiet
<1>7. ASSUME JoinAndFree PROVE Rest'
  BY <1>i, <1>7, AnswerFree
<1>8. ASSUME UNCHANGED vars PROVE Rest'
  BY <1>i, <1>8, AnswerQuiet DEF vars
<1>9. Rest'
  BY <1>1, <1>2, <1>3, <1>4, <1>5, <1>6, <1>7, <1>8 DEF Next, ClientStep, OwnerStep
<1> QED BY <1>i, <1>9 DEF AnswerInv

LEMMA AnswerAlways == Spec => [](TypeInv /\ OrderInv /\ AnswerInv)
  BY TypeInit, TypeNext, OrderInit, OrderNext, AnswerInit, AnswerNext, PTL DEF Spec

\* The iterator that get copies through is never that of an erased entry.
THEOREM IteratorsStayValid == Spec => []IteratorStaysValid
<1>1. AnswerInv => IteratorStaysValid
  BY DEF AnswerInv
<1> QED BY <1>1, AnswerAlways, PTL

\* Every get_async that has run was answered with the value its key had between
\* the tasks pushed before it and those pushed after it.
THEOREM AsyncGetsAreExact == Spec => []AsyncReadsExact
<1>1. TypeInv /\ AnswerInv => AsyncReadsExact
  <2> SUFFICES ASSUME TypeInv, AnswerInv, NEW s \in Shards, NEW i \in 1..applied[s],
                      log[s][i].op = "get"
               PROVE  promise[log[s][i].by][log[s][i].id] =
                        [st |-> "ready", val |-> Store!ValueAt(log[s], log[s][i].key, i - 1)]
    BY DEF AsyncReadsExact
  <2>1. PICK p : p = promise[log[s][i].by][log[s][i].id]
    OBVIOUS
  <2>2. p = [st |-> "ready", val |-> p.val] /\ Holds(log[s], log[s][i].key, i - 1, p.val)
    BY <2>1 DEF AnswerInv, AnswersExact
  <2>3. i - 1 \in Nat
    BY LoggedTask
  <2> QED BY <2>1, <2>2, <2>3, HoldsValue
<1> QED BY <1>1, AnswerAlways, PTL

\* A future that is still open has its task in a queue that will be run or
\* destroyed, or in a worker's hand: no get_async waits for nothing.
THEOREM PromisesAreKept == Spec => []NoPromiseForgotten
<1>1. TypeInv /\ OrderInv /\ AnswerInv => NoPromiseForgotten
  <2> SUFFICES ASSUME TypeInv, OrderInv, AnswerInv, NEW t \in Threads, NEW n \in 1..MaxOps,
                      promise[t][n].st = "pending"
               PROVE  \E s \in Shards : s >= closing /\ Owes(s, t, n)
    BY DEF NoPromiseForgotten
  <2>1. PICK s \in Shards : s >= closing /\ Store!Abandoned(s, t, n)
    BY DEF AnswerInv, PendingLogged
  <2>2. CASE worker[s] # "run"
    BY <2>1, <2>2, DroppedIsAbandoned DEF Owes
  <2>3. CASE worker[s] = "run"
    <3>1. PICK a \in Nat, q \in Nat, l \in Nat :
                 a = applied[s] /\ q = Len(tasks[s]) /\ l = Len(log[s])
      BY DEF TypeInv, TypeOK
    <3>2. /\ a + 1 + q = l /\ \A i \in 1..q : tasks[s][i] = log[s][a + 1 + i]
          /\ task[s] = log[s][a + 1]
      BY <2>1, <2>3, <3>1 DEF OrderInv, NoTaskLost, InHand
    <3>3. PICK j \in a + 1 .. l : log[s][j].op = "get" /\ log[s][j].by = t /\ log[s][j].id = n
      BY <2>1, <3>1 DEF Store!Abandoned
    <3>4. CASE j = a + 1
      BY <2>1, <2>3, <3>2, <3>3, <3>4 DEF Owes
    <3>5. CASE j # a + 1
      <4>1. PICK i \in 1..q : j = a + 1 + i
        <5>1. j - (a + 1) \in 1..q /\ j = a + 1 + (j - (a + 1))
          BY <3>2, <3>5
        <5> QED BY <5>1
      <4>2. tasks[s][i] = log[s][j]
        BY <3>2, <4>1
      <4> QED BY <2>1, <3>1, <3>3, <4>2 DEF Owes, Dropped
    <3> QED BY <3>4, <3>5
  <2> QED BY <2>2, <2>3
<1> QED BY <1>1, AnswerAlways, PTL

-----------------------------------------------------------------------------
\* What a client sees of its own requests

\* A queue keeps what one client pushes in the order of its calls, whoever
\* pushes in between.
ProgramOrder ==
  \A s \in Shards : \A i, j \in 1..Len(log[s]) :
    log[s][i].by = log[s][j].by /\ log[s][i].id < log[s][j].id => i < j

\* A client reads its own writes: what get_async answers to a client that wrote
\* the key by an earlier call is that write, or one that took effect after it.
OwnWritesSeen ==
  \A s \in Shards : \A g \in 1..applied[s], w \in 1..Len(log[s]) :
    /\ log[s][g].op = "get" /\ Store!IsWrite(log[s][w]) /\ log[s][w].key = log[s][g].key
    /\ log[s][w].by = log[s][g].by /\ log[s][w].id < log[s][g].id
    => \E i \in w .. g - 1 :
         /\ Store!IsWrite(log[s][i]) /\ log[s][i].key = log[s][g].key
         /\ promise[log[s][g].by][log[s][g].id] = [st |-> "ready", val |-> log[s][i].val]

\* A push is the last of its client's so far, as a client numbers one request
\* at a time.
LEMMA ProgramOrderPush ==
  ASSUME TypeInv, LogFresh, ProgramOrder, NEW t \in Threads, PushTask(t)
  PROVE  ProgramOrder'
<1>1. /\ req[t] \in Store!Task /\ req[t].by = t /\ req[t].id = calls[t] /\ calls[t] \in Int
      /\ pc[t] = "push"
  BY DEF PushTask, TypeInv, TypeOK, RequestsMade
<1>2. PICK c \in Shards, x \in Store!Task : c = getId(req[t].key) /\ x = req[t]
  BY <1>1, getIdType DEF Store!Task
<1>3. log' = [log EXCEPT ![c] = Append(@, x)] /\ log \in [Shards -> Seq(Store!Task)]
  BY <1>2 DEF PushTask, TypeInv, TypeOK
<1>4. PICK m \in Nat : m = Len(log[c])
  BY <1>3
<1>5. /\ \A s \in Shards \ {c} : log'[s] = log[s]
      /\ Len(log'[c]) = m + 1 /\ log'[c][m + 1] = x
      /\ \A i \in 1..m : log'[c][i] = log[c][i]
  BY <1>3, <1>4
<1>6. \A i \in 1..m : log[c][i].by = t => log[c][i].id < x.id
  BY <1>1, <1>2, <1>4 DEF LogFresh
<1>7. x.by = t
  BY <1>1, <1>2
<1> SUFFICES ASSUME NEW s \in Shards, NEW i \in 1..Len(log'[s]), NEW j \in 1..Len(log'[s]),
                    log'[s][i].by = log'[s][j].by, log'[s][i].id < log'[s][j].id
             PROVE  i < j
  BY DEF ProgramOrder
<1>8. CASE s # c
  <2>1. log'[s] = log[s]
    BY <1>5, <1>8
  <2> QED BY <2>1 DEF ProgramOrder
<1>9. CASE s = c /\ i \in 1..m /\ j \in 1..m
  <2>1. log'[c][i] = log[c][i] /\ log'[c][j] = log[c][j]
    BY <1>5, <1>9
  <2> QED BY <1>4, <1>9, <2>1 DEF ProgramOrder
<1>10. CASE s = c /\ j = m + 1
  <2>1. i # m + 1
    <3>1. log'[c][i].id < log'[c][j].id /\ log'[c][j].id \in Int
      BY <1>1, <1>2, <1>5, <1>10
    <3> QED BY <1>10, <3>1
  <2> QED BY <1>5, <1>10, <2>1
<1>11. CASE s = c /\ i = m + 1 /\ j \in 1..m
  <2>1. log[c][j].by = t /\ x.id < log[c][j].id
    BY <1>5, <1>7, <1>11
  <2>2. log[c][j].id < x.id
    BY <1>6, <1>11, <2>1
  <2>3. log[c][j].id \in Int /\ x.id \in Int
    BY <1>1, <1>2, <1>4, <1>11, LoggedTask
  <2> QED BY <2>1, <2>2, <2>3
<1> QED BY <1>4, <1>5, <1>8, <1>9, <1>10, <1>11

LEMMA ProgramOrderNext == TypeInv /\ LogFresh /\ ProgramOrder /\ [Next]_vars => ProgramOrder'
<1> SUFFICES ASSUME TypeInv, LogFresh, ProgramOrder, [Next]_vars PROVE ProgramOrder'
  OBVIOUS
<1>1. ASSUME NEW t \in Threads, PushTask(t) PROVE ProgramOrder'
  BY <1>1, ProgramOrderPush
<1>2. ASSUME UNCHANGED log PROVE ProgramOrder'
  BY <1>2 DEF ProgramOrder
<1>3. (\E t \in Threads : PushTask(t)) \/ UNCHANGED log
  <2>1. ASSUME NEW t \in Threads, StartCall(t) PROVE UNCHANGED log
    BY <2>1 DEF StartCall, SetAsync, RemoveAsync, GetAsync, GetSync, Call
  <2>2. ASSUME NEW t \in Threads, ClientStep(t), ~PushTask(t) PROVE UNCHANGED log
    BY <2>2 DEF ClientStep, NotifyOne, Await, GetFind, GetCopy
  <2>3. ASSUME NEW s \in Shards, WorkerStep(s) \/ SpuriousWake(s) PROVE UNCHANGED log
    BY <2>3 DEF WorkerStep, LoopTest, LockTasks, PredFalse, Block, ExitLoop, SpuriousWake,
                Move, Take, RunSet, RunRemove, RunGet, Finish
  <2>4. ASSUME BeginDestroy \/ OwnerStep PROVE UNCHANGED log
    BY <2>4 DEF BeginDestroy, OwnerStep, StopShard, NotifyAll, JoinAndFree
  <2>5. ASSUME UNCHANGED vars PROVE UNCHANGED log
    BY <2>5 DEF vars
  <2> QED BY <2>1, <2>2, <2>3, <2>4, <2>5 DEF Next
<1> QED BY <1>1, <1>2, <1>3

\* The requests of one client to one shard take effect in the order of its
\* calls, though each of them returns before it has any effect.
THEOREM CallsKeepTheirOrder == Spec => []ProgramOrder
<1>1. Init => ProgramOrder
  BY DEF Init, ProgramOrder
<1>2. AnswerInv => LogFresh
  BY DEF AnswerInv
<1> QED BY <1>1, <1>2, ProgramOrderNext, AnswerAlways, PTL DEF Spec

\* A client that sets or removes a key and then gets it asynchronously never
\* sees what the key held before, which get_sync may still show.
THEOREM OwnWritesAreSeen == Spec => []OwnWritesSeen
<1>1. TypeInv /\ OrderInv /\ AnswerInv /\ ProgramOrder => OwnWritesSeen
  <2> SUFFICES ASSUME TypeInv, OrderInv, AnswerInv, ProgramOrder,
                      NEW s \in Shards, NEW g \in 1..applied[s], NEW w \in 1..Len(log[s]),
                      log[s][g].op = "get", Store!IsWrite(log[s][w]),
                      log[s][w].key = log[s][g].key, log[s][w].by = log[s][g].by,
                      log[s][w].id < log[s][g].id
               PROVE  \E i \in w .. g - 1 :
                        /\ Store!IsWrite(log[s][i]) /\ log[s][i].key = log[s][g].key
                        /\ promise[log[s][g].by][log[s][g].id] =
                             [st |-> "ready", val |-> log[s][i].val]
    BY DEF OwnWritesSeen
  <2> DEFINE W == Store!WritesTo(log[s], log[s][g].key, g - 1)
  <2>1. PICK p : p = promise[log[s][g].by][log[s][g].id]
    OBVIOUS
  <2>2. p = [st |-> "ready", val |-> p.val] /\ Holds(log[s], log[s][g].key, g - 1, p.val)
    BY <2>1 DEF AnswerInv, AnswersExact
  <2>3. g \in 1..Len(log[s]) /\ g \in Int /\ w \in Int
    <3>1. applied[s] \in Nat /\ Len(log[s]) \in Nat /\ applied[s] <= Len(log[s])
      BY LoggedTask DEF OrderInv, LogOnShard
    <3> QED BY <3>1
  <2>4. w < g
    BY <2>3 DEF ProgramOrder
  <2>5. w \in W
    BY <2>3, <2>4 DEF Store!WritesTo
  <2>6. PICK i \in W : (\A j \in W : j <= i) /\ p.val = log[s][i].val
    BY <2>2, <2>5 DEF Holds
  <2>7. i \in 1 .. g - 1 /\ Store!IsWrite(log[s][i]) /\ log[s][i].key = log[s][g].key
    BY <2>6 DEF Store!WritesTo
  <2>8. i \in w .. g - 1
    BY <2>3, <2>5, <2>6, <2>7
  <2> QED BY <2>1, <2>2, <2>6, <2>7, <2>8
<1> QED BY <1>1, AnswerAlways, CallsKeepTheirOrder, PTL

-----------------------------------------------------------------------------
\* The cache implements the asynchronous store

\* The partition of a key is the shard that getId names.
LEMMA PartitionIsShard == \A k \in Keys : [x \in Keys |-> getId(x)][k] = getId(k)
  OBVIOUS

\* A step that touches no variable of the store is a stutter of it.
LEMMA StoreStutter ==
  ASSUME UNCHANGED <<log, applied, promise, result, closing>>
  PROVE  UNCHANGED Store!vars
  BY DEF Store!vars

\* push_task hands the request to the partition of its key.
LEMMA PushIsAccept ==
  ASSUME TypeInv, NEW t \in Threads, PushTask(t)
  PROVE  Store!Next
<1>1. PICK c \in Shards, x \in Store!Task :
             x = req[t] /\ c = getId(x.key) /\ x.key \in Keys /\ x.by = t
  BY getIdType DEF PushTask, TypeInv, RequestsMade, Store!Task
<1>2. closing = 0
  BY DEF PushTask, TypeInv, TypeOK, DestroyedInOrder
<1>3. c \notin 0 .. closing - 1
  BY <1>2 DEF Shards
<1>4. [k \in Keys |-> getId(k)][x.key] = c
  BY <1>1, PartitionIsShard
<1>5. Store!Accept(c, x)
  BY <1>1, <1>3, <1>4 DEF PushTask, workerVars, ownerVars, Store!Accept
<1> QED BY <1>5 DEF Store!Next

\* A task that runs is the one its partition applies next.
LEMMA RunIsApply ==
  ASSUME TypeInv, OrderInv, NEW s \in Shards, RunSet(s) \/ RunRemove(s) \/ RunGet(s)
  PROVE  Store!Next
<1>1. worker[s] = "run" /\ applied' = [applied EXCEPT ![s] = @ + 1]
      /\ UNCHANGED <<log, result, closing>>
  BY DEF RunSet, RunRemove, RunGet, Finish, clientVars, ownerVars
<1>2. /\ applied[s] < Len(log[s]) /\ task[s] = log[s][applied[s] + 1]
      /\ storage[s][task[s].key] = Store!ValueAt(log[s], task[s].key, applied[s])
  BY <1>1, InHandIsNext, LoggedTask
<1>3. s \notin 0 .. closing - 1
  <2>1. s >= closing
    BY <1>1, InHandIsNext
  <2> QED BY <2>1 DEF TypeInv, TypeOK, Shards
<1>4. promise' = IF task[s].op = "get"
                 THEN [promise EXCEPT ![task[s].by][task[s].id] =
                         [st |-> "ready", val |-> storage[s][task[s].key]]]
                 ELSE promise
  BY DEF RunSet, RunRemove, RunGet
<1>5. Store!Apply(s)
  BY <1>1, <1>2, <1>3, <1>4 DEF Store!Apply
<1> QED BY <1>5 DEF Store!Next

\* A synchronous get reads what the tasks run so far left, at the step that
\* fills its result.
LEMMA GetIsRead ==
  ASSUME TypeInv, OrderInv, NEW t \in Threads,
         (GetFind(t) /\ storage[getId(req[t].key)][req[t].key] = NoValue) \/ GetCopy(t)
  PROVE  Store!Next
<1>1. PICK c \in Shards, k \in Keys : k = req[t].key /\ c = getId(k)
  BY getIdType DEF GetFind, GetCopy, TypeInv, RequestsMade, Store!Task
<1>2. result' = [result EXCEPT ![t] = storage[c][k]] /\ UNCHANGED <<log, applied, promise, closing>>
  BY <1>1 DEF GetFind, GetCopy, workerVars, ownerVars
<1>3. storage[c][k] = Store!ValueAt(log[c], k, applied[c])
  <2>1. Holds(log[c], k, applied[c], storage[c][k]) /\ applied[c] \in Nat
    BY DEF OrderInv, Replay, TypeInv, TypeOK
  <2> QED BY <2>1, HoldsValue
<1>4. c \notin 0 .. closing - 1
  <2>1. closing = 0
    BY DEF GetFind, GetCopy, TypeInv, TypeOK, DestroyedInOrder
  <2> QED BY <2>1 DEF Shards
<1>5. [x \in Keys |-> getId(x)][k] = c
  BY <1>1
<1>6. Store!Read(t, k)
  BY <1>2, <1>3, <1>4, <1>5 DEF Store!Read
<1> QED BY <1>6 DEF Store!Next

\* Destroying a shard closes its partition.
LEMMA FreeIsClose ==
  ASSUME TypeInv, OrderInv, JoinAndFree
  PROVE  Store!Next
<1>1. PICK c \in Shards : c = closing /\ worker[c] = "done" /\ c >= closing
  BY DEF JoinAndFree, Joined, TypeInv, TypeOK, DestroyedInOrder, Shards
<1>2. c \notin 0 .. closing - 1 /\ 0 .. closing' - 1 = (0 .. closing - 1) \cup {c}
  BY <1>1 DEF JoinAndFree, Shards
<1>3. promise' = [t \in Threads |-> [n \in 1..MaxOps |->
                    IF Store!Abandoned(c, t, n) THEN [st |-> "broken", val |-> NoValue]
                    ELSE promise[t][n]]]
  <2>1. \A t \in Threads, n \in 1..MaxOps : Dropped(c, t, n) <=> Store!Abandoned(c, t, n)
    BY <1>1, DroppedIsAbandoned
  <2> QED BY <1>1, <2>1 DEF JoinAndFree, Broke, Broken
<1>4. UNCHANGED <<log, applied, result>>
  BY DEF JoinAndFree, clientVars, workerVars
<1>5. Store!Close(c)
  BY <1>2, <1>3, <1>4 DEF Store!Close
<1> QED BY <1>5 DEF Store!Next

\* With its shards, queues, locks and threads the cache is a store that accepts
\* requests, applies each partition's in order and answers a get with what it
\* reads at one point of that order.
THEOREM CacheIsAsyncStore == Spec => ImplementsAsyncStore
<1>1. Init => Store!Init
  BY DEF Init, Store!Init
<1>2. TypeInv /\ OrderInv /\ [Next]_vars => [Store!Next]_(Store!vars)
  <2> SUFFICES ASSUME TypeInv, OrderInv, [Next]_vars PROVE Store!Next \/ UNCHANGED Store!vars
    OBVIOUS
  <2> USE DEF clientVars, workerVars, ownerVars
  <2>1. ASSUME NEW t \in Threads, StartCall(t) PROVE UNCHANGED Store!vars
    BY <2>1, StoreStutter DEF StartCall, SetAsync, RemoveAsync, GetAsync, GetSync, Call
  <2>2. ASSUME NEW t \in Threads, ClientStep(t) PROVE Store!Next \/ UNCHANGED Store!vars
    <3>1. CASE PushTask(t)
      BY <3>1, PushIsAccept
    <3>2. CASE NotifyOne(t) \/ Await(t)
      BY <3>2, StoreStutter DEF NotifyOne, Await
    <3>3. CASE GetFind(t)
      BY <3>3, GetIsRead, StoreStutter DEF GetFind
    <3>4. CASE GetCopy(t)
      BY <3>4, GetIsRead
    <3> QED BY <2>2, <3>1, <3>2, <3>3, <3>4 DEF ClientStep
  <2>3. ASSUME NEW s \in Shards, WorkerStep(s) \/ SpuriousWake(s)
        PROVE  Store!Next \/ UNCHANGED Store!vars
    <3>1. CASE RunSet(s) \/ RunRemove(s) \/ RunGet(s)
      BY <3>1, RunIsApply
    <3>2. CASE LoopTest(s) \/ LockTasks(s) \/ PredFalse(s) \/ Block(s) \/ ExitLoop(s) \/ Take(s)
               \/ SpuriousWake(s)
      BY <3>2, StoreStutter DEF LoopTest, LockTasks, PredFalse, Block, ExitLoop, Take, SpuriousWake,
                                Move
    <3> QED BY <2>3, <3>1, <3>2 DEF WorkerStep
  <2>4. ASSUME BeginDestroy \/ StopShard \/ NotifyAll PROVE UNCHANGED Store!vars
    BY <2>4, StoreStutter DEF BeginDestroy, StopShard, NotifyAll
  <2>5. ASSUME UNCHANGED vars PROVE UNCHANGED Store!vars
    BY <2>5, StoreStutter DEF vars
  <2> QED BY <2>1, <2>2, <2>3, <2>4, <2>5, FreeIsClose DEF Next, OwnerStep
<1> QED BY <1>1, <1>2, OrderAlways, PTL DEF Spec, ImplementsAsyncStore, Store!Spec
=============================================================================
