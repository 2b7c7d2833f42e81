------------------------------ MODULE TaskJobLock ------------------------------
(***************************************************************************)
(* The row of job_lock that keeps two runs of a scheduled command apart.   *)
(* The lock is a lease: it is not renewed, and after its duration another  *)
(* run may take it from a holder that still works.                         *)
(***************************************************************************)
CONSTANT Commands  \* runs of the command that may be in progress at once

VARIABLE lock

\* by is locked_by while is_locked, expired says that locked_until has passed.
Unlocked == [by |-> {}, expired |-> FALSE]

LockRecord == [by : SUBSET Commands, expired : BOOLEAN]

LockInit == lock = Unlocked

\* Mutant: an unexpired lock is taken over.
TakeLockAnyway(c) == lock' = [by |-> {c}, expired |-> FALSE]

\* __enter__: the row is read FOR UPDATE and taken in one transaction unless it
\* is locked and not expired.  The second transaction, which reads it again,
\* fails only if the lease ended in between: Unlock then finds the same.
TakeLock(c) ==
  /\ lock.by = {} \/ lock.expired
  /\ lock' = [by |-> {c}, expired |-> FALSE]

\* __exit__: only the holder of record unlocks, any other run raises.
Unlock(c) == lock' = IF lock.by = {c} THEN Unlocked ELSE lock

\* locked_until passes.
LeaseEnds ==
  /\ lock.by # {} /\ ~lock.expired
  /\ lock' = [lock EXCEPT !.expired = TRUE]
================================================================================
