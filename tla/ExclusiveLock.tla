----------------------------- MODULE ExclusiveLock -----------------------------
(***************************************************************************)
(* What a LockingStrategy promises: "exclusive execution of some process". *)
(* A holder may lose the lock without giving it back, by a crash or by     *)
(* outstaying its lease, but nobody gets it before that.                   *)
(***************************************************************************)
CONSTANT Run        \* executions that contend for the lock
VARIABLE holders    \* those that hold it

Acquire(r) == holders = {} /\ holders' = {r}
Lose       == holders' \in SUBSET holders

Init == holders = {}
Next == Lose \/ \E r \in Run : Acquire(r)
Spec == Init /\ [][Next]_holders
=============================================================================
