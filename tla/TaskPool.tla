------------------------------ MODULE TaskPool ------------------------------
(***************************************************************************)
(* What ThreadPool promises: jobs are started once each, in the order they  *)
(* were submitted, at most one per worker at a time, and the pool closes     *)
(* only when there is nothing left to do.                                    *)
(***************************************************************************)
EXTENDS Sequences

CONSTANTS Jobs,     \* what can be submitted
          Workers,  \* the threads of the pool
          NoJob     \* a worker's job when it has none, not one of Jobs

VARIABLES queued,   \* the jobs submitted and not started, oldest first
          running,  \* running[w]: the job worker w runs
          closed

vars == <<queued, running, closed>>

Init == queued = <<>> /\ running = [w \in Workers |-> NoJob] /\ closed = FALSE

Submit(j) == ~closed /\ queued' = Append(queued, j) /\ UNCHANGED <<running, closed>>

Start(w) ==
  /\ running[w] = NoJob
  /\ queued # <<>>
  /\ running' = [running EXCEPT ![w] = Head(queued)]
  /\ queued' = Tail(queued)
  /\ UNCHANGED closed

Finish(w) ==
  /\ running[w] # NoJob
  /\ running' = [running EXCEPT ![w] = NoJob]
  /\ UNCHANGED <<queued, closed>>

Close ==
  /\ queued = <<>>
  /\ \A w \in Workers : running[w] = NoJob
  /\ closed' = TRUE
  /\ UNCHANGED <<queued, running>>

Next == \/ \E j \in Jobs : Submit(j)
        \/ \E w \in Workers : Start(w) \/ Finish(w)
        \/ Close

Spec == Init /\ [][Next]_vars
=============================================================================
