------------------------------ MODULE AtomicMutex ------------------------------
(***************************************************************************)
(* What recovery.lock promises: at most one process is inside, and nobody  *)
(* enters before the last one has left or is dead.                         *)
(***************************************************************************)
CONSTANT Procs

VARIABLE holders   \* the processes inside

Init == holders = {}

Take(p) == holders = {} /\ holders' = {p}
Give(p) == holders = {p} /\ holders' = {}

Next == \E p \in Procs : Take(p) \/ Give(p)
Spec == Init /\ [][Next]_holders
=============================================================================
