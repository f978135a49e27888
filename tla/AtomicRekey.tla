------------------------------ MODULE AtomicRekey ------------------------------
(***************************************************************************)
(* What `rekey` promises about a ring's generation of the master key,      *)
(* without backup, journal or rollback: a rotation is one step, it is      *)
(* taken only by a repository that holds the current key, and an older     *)
(* generation never comes into force again.                                *)
(***************************************************************************)
EXTENDS Naturals

VARIABLES
  generation,  \* the generation in force
  unlocked     \* the current key is on this machine

Init == generation = 1 /\ unlocked \in BOOLEAN

Rotate ==
  /\ unlocked
  /\ generation' \in {g \in Nat : g > generation}
  /\ UNCHANGED unlocked

Lock   == unlocked' = FALSE /\ UNCHANGED generation
Unlock == unlocked' = TRUE /\ UNCHANGED generation

Next == Rotate \/ Lock \/ Unlock

Spec == Init /\ [][Next]_<<generation, unlocked>>
=============================================================================
