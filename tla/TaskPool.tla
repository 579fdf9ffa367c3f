------------------------------ MODULE TaskPool ------------------------------
(***************************************************************************)
(* What the thread pool promises to its callers, without threads, locks or *)
(* a ring buffer: accepted tasks wait in FIFO order in a queue of bounded  *)
(* length, each one is started once by some worker and finishes once, and  *)
(* the pool is released only when everything accepted has finished.        *)
(* (include/thread_pool.h: "Adds one unit of work to the queue",           *)
(* "waits for queued work to finish, then releases ...")                   *)
(***************************************************************************)
EXTENDS Naturals, Sequences, FiniteSets

CONSTANTS Tasks,       \* units of work; each one is handed in at most once
          Capacity,    \* length of the bounded queue
          MaxActive    \* number of workers: tasks that may run at one time

VARIABLES pending,     \* accepted tasks that no worker has taken yet, oldest first
          active,      \* tasks being run by a worker
          finished,    \* tasks that have been run to the end
          closed,      \* shutdown has begun
          released     \* the resources of the pool are gone

vars == <<pending, active, finished, closed, released>>

Queued == {pending[i] : i \in DOMAIN pending}

Init ==
    /\ pending = <<>>
    /\ active = {}
    /\ finished = {}
    /\ closed = FALSE
    /\ released = FALSE

(* A submit that is accepted: never after shutdown began, never beyond the *)
(* capacity, and never a task the pool has already seen.                   *)
Accept(t) ==
    /\ ~closed
    /\ Len(pending) < Capacity
    /\ t \notin Queued \cup active \cup finished
    /\ pending' = Append(pending, t)
    /\ UNCHANGED <<active, finished, closed, released>>

(* A worker takes the oldest task, before or after shutdown began.         *)
Start ==
    /\ pending # <<>>
    /\ Cardinality(active) < MaxActive
    /\ active' = active \cup {Head(pending)}
    /\ pending' = Tail(pending)
    /\ ~released
    /\ UNCHANGED <<finished, closed, released>>

Finish(t) ==
    /\ t \in active
    /\ ~released
    /\ active' = active \ {t}
    /\ finished' = finished \cup {t}
    /\ UNCHANGED <<pending, closed, released>>

Close ==
    /\ ~closed
    /\ closed' = TRUE
    /\ UNCHANGED <<pending, active, finished, released>>

(* Only a drained pool is released.                                        *)
Release ==
    /\ closed
    /\ ~released
    /\ pending = <<>>
    /\ active = {}
    /\ released' = TRUE
    /\ UNCHANGED <<pending, active, finished, closed>>

Next ==
    \/ \E t \in Tasks : Accept(t) \/ Finish(t)
    \/ Start
    \/ Close
    \/ Release

Spec == Init /\ [][Next]_vars
=============================================================================
