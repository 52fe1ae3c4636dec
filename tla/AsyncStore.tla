----------------------------- MODULE AsyncStore -----------------------------
(***************************************************************************)
(* What the in-memory cache of cache/cache.h promises, with no thread, no   *)
(* mutex and no condition variable in it.                                   *)
(*                                                                          *)
(* The store is split into partitions that share nothing.  Every            *)
(* asynchronous request that a partition accepts gets a place in its log;   *)
(* the log takes effect strictly in that order.  An asynchronous get is     *)
(* answered with exactly what the requests before it left; a synchronous    *)
(* get sees the effect of some prefix of the log, and the prefix only       *)
(* grows.  Closing a partition breaks the promises that are still open.     *)
(***************************************************************************)
EXTENDS Integers, Sequences

CONSTANTS Threads,      \* threads that call the store
          Keys,         \* KeyType
          Values,       \* ValueType
          NoValue,      \* std::nullopt, not one of Values
          Partitions,   \* the independent parts of the store
          PartitionOf,  \* the partition of each key, a function
          MaxOps        \* bound: requests a thread makes

\* A request names its kind, its key, the value to store (NoValue for remove
\* and get) and the promise it answers: request number id of thread by.
Maybe == Values \cup {NoValue}
Task == {r \in [op: {"set", "remove", "get"}, key: Keys, val: Maybe, by: Threads, id: 1..MaxOps] :
           r.op = "set" <=> r.val # NoValue}
Promise == [st: {"none", "pending", "ready", "broken"}, val: Maybe]

IsWrite(task) == task.op \in {"set", "remove"}

\* The requests among the first n of a log that write key k.
WritesTo(seq, k, n) == {i \in 1..n : IsWrite(seq[i]) /\ seq[i].key = k}

\* What key k holds once the first n requests of a log have taken effect.
ValueAt(seq, k, n) ==
  IF WritesTo(seq, k, n) = {} THEN NoValue
  ELSE seq[CHOOSE i \in WritesTo(seq, k, n) : \A j \in WritesTo(seq, k, n) : j <= i].val

VARIABLES
  log,      \* log[p]: the requests partition p accepted, in order
  applied,  \* applied[p]: how many of them have taken effect
  promise,  \* promise[t][n]: the answer to request n of thread t
  result,   \* result[t]: what the last synchronous get of t returned
  closed    \* the partitions that have been closed

vars == <<log, applied, promise, result, closed>>

Init ==
  /\ log = [p \in Partitions |-> <<>>]
  /\ applied = [p \in Partitions |-> 0]
  /\ promise = [t \in Threads |-> [n \in 1..MaxOps |-> [st |-> "none", val |-> NoValue]]]
  /\ result = [t \in Threads |-> NoValue]
  /\ closed = {}

Accept(p, task) ==
  /\ p \notin closed
  /\ PartitionOf[task.key] = p
  /\ log' = [log EXCEPT ![p] = Append(@, task)]
  /\ promise' = IF task.op = "get"
                THEN [promise EXCEPT ![task.by][task.id] = [st |-> "pending", val |-> NoValue]]
                ELSE promise
  /\ UNCHANGED <<applied, result, closed>>

Apply(p) ==
  /\ p \notin closed
  /\ applied[p] < Len(log[p])
  /\ LET task == log[p][applied[p] + 1] IN
       promise' = IF task.op = "get"
                  THEN [promise EXCEPT ![task.by][task.id] =
                          [st |-> "ready", val |-> ValueAt(log[p], task.key, applied[p])]]
                  ELSE promise
  /\ applied' = [applied EXCEPT ![p] = @ + 1]
  /\ UNCHANGED <<log, result, closed>>

Read(t, k) ==
  /\ PartitionOf[k] \notin closed
  /\ result' = [result EXCEPT ![t] = ValueAt(log[PartitionOf[k]], k, applied[PartitionOf[k]])]
  /\ UNCHANGED <<log, applied, promise, closed>>

\* The promises of the requests that partition p accepted and will never run.
Abandoned(p, t, n) ==
  \E i \in applied[p] + 1 .. Len(log[p]) :
    log[p][i].op = "get" /\ log[p][i].by = t /\ log[p][i].id = n

Close(p) ==
  /\ p \notin closed
  /\ closed' = closed \cup {p}
  /\ promise' = [t \in Threads |-> [n \in 1..MaxOps |->
                   IF Abandoned(p, t, n) THEN [st |-> "broken", val |-> NoValue]
                   ELSE promise[t][n]]]
  /\ UNCHANGED <<log, applied, result>>

Next ==
  \/ \E p \in Partitions : Apply(p) \/ Close(p) \/ \E task \in Task : Accept(p, task)
  \/ \E t \in Threads, k \in Keys : Read(t, k)

Spec == Init /\ [][Next]_vars
=============================================================================
