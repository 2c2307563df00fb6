------------------------------- MODULE RestoreLock -------------------------------
(***************************************************************************)
(* What reconcileAcquiringLock and releaseRestoreLock promise together:    *)
(* a lock.  A client takes it when nobody holds it, does what must not be  *)
(* done twice at a time only while it holds it, and gives it back once it  *)
(* is out of that section.  Nobody takes the lock away from its holder.    *)
(*                                                                         *)
(* RestoreSystem implements this with a Lease, read through a cache and    *)
(* deleted by name.                                                        *)
(***************************************************************************)
CONSTANTS Client, Nobody

VARIABLES
  holder,   \* who has the lock, or Nobody
  inside    \* the clients in the critical section

Init == holder = Nobody /\ inside = {}

Acquire(c) == holder = Nobody /\ holder' = c /\ UNCHANGED inside

Enter(c) == holder = c /\ inside' = inside \cup {c} /\ UNCHANGED holder

Leave(c) == c \in inside /\ inside' = inside \ {c} /\ UNCHANGED holder

Release(c) == holder = c /\ c \notin inside /\ holder' = Nobody /\ UNCHANGED inside

Next == \E c \in Client : Acquire(c) \/ Enter(c) \/ Leave(c) \/ Release(c)

Spec == Init /\ [][Next]_<<holder, inside>>
=============================================================================
