-------------------------------- MODULE Mutex --------------------------------
(***************************************************************************)
(* What journal.mutation_lock() promises its callers: at most one thread   *)
(* of any process is inside the critical section, and a thread that dies   *)
(* inside it gives the section up.                                         *)
(***************************************************************************)
CONSTANTS Threads,   \* every thread of every process that may take the lock
          NoThread   \* nobody holds the lock

VARIABLE holder

Init == holder = NoThread

Acquire(t) == /\ holder = NoThread
              /\ holder' = t

\* Leaving the critical section, or dying in it.
Release(t) == /\ holder = t
              /\ holder' = NoThread

Next == \E t \in Threads : Acquire(t) \/ Release(t)

Spec == Init /\ [][Next]_holder
=============================================================================
