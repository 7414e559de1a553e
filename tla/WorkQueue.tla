------------------------------ MODULE WorkQueue ------------------------------
(***************************************************************************)
(* What core/thread-pool.h promises, with no thread, lock or condition in  *)
(* sight: work that was added is started at most once, in the order it was *)
(* added, by at most one worker at a time each, and once the pool is       *)
(* closed nothing runs and nothing starts.  Work still queued when the     *)
(* pool closes is dropped.  ThreadPool implements this specification.      *)
(***************************************************************************)
EXTENDS Naturals, Sequences

CONSTANTS
  Jobs,      (* the pieces of work *)
  Workers,   (* the threads of the pool *)
  NoJob      (* a worker that runs nothing *)

VARIABLES
  queue,     (* work added and not started, oldest first *)
  running,   (* what each worker is running *)
  finished,  (* work whose callback returned *)
  closed     (* thread_pool_destory has returned *)

wqVars == <<queue, running, finished, closed>>

Queued  == {queue[i] : i \in 1..Len(queue)}
Running == {running[w] : w \in Workers} \ {NoJob}

Init ==
  /\ queue = <<>>
  /\ running = [w \in Workers |-> NoJob]
  /\ finished = {}
  /\ closed = FALSE

(* Work is added once, behind everything added before it. *)
Submit(j) ==
  /\ ~closed
  /\ j \notin Queued \cup Running \cup finished
  /\ queue' = Append(queue, j)
  /\ UNCHANGED <<running, finished, closed>>

(* An idle worker starts the oldest work. *)
Start(w) ==
  /\ ~closed
  /\ queue # <<>>
  /\ running[w] = NoJob
  /\ running' = [running EXCEPT ![w] = Head(queue)]
  /\ queue' = Tail(queue)
  /\ UNCHANGED <<finished, closed>>

Finish(w) ==
  /\ running[w] # NoJob
  /\ finished' = finished \cup {running[w]}
  /\ running' = [running EXCEPT ![w] = NoJob]
  /\ UNCHANGED <<queue, closed>>

(* The pool closes only when no worker runs anything. *)
Close ==
  /\ ~closed
  /\ running = [w \in Workers |-> NoJob]
  /\ closed' = TRUE
  /\ UNCHANGED <<queue, running, finished>>

Next ==
  \/ \E j \in Jobs : Submit(j)
  \/ \E w \in Workers : Start(w) \/ Finish(w)
  \/ Close

Spec == Init /\ [][Next]_wqVars
=============================================================================
