------------------------------ MODULE AtomicLock ------------------------------
(***************************************************************************)
(* What `lock` promises about a ring's key, without files, journals or     *)
(* recovery: the key leaves the machine in one indivisible step, taken     *)
(* only when no decrypted secret of the ring is left in a reachable        *)
(* worktree but those the lock has overlooked; until that step the lock    *)
(* can be undone.                                                          *)
(***************************************************************************)
CONSTANTS Rings, Files, RingFiles(_)

VARIABLES
  state,       \* per ring: "unlocked", "locking" or "locked"
  exposed,     \* reachable files that hold the decrypted committed version
  overlooked   \* files the lock under way has not been told of

Init ==
  /\ state \in [Rings -> {"unlocked", "locked"}]
  /\ exposed \subseteq Files
  /\ overlooked = {}

Begin(r) ==
  /\ \A s \in Rings : state[s] # "locking"
  /\ state[r] = "unlocked"
  /\ state' = [state EXCEPT ![r] = "locking"]
  /\ UNCHANGED <<exposed, overlooked>>

Commit(r) ==
  /\ state[r] = "locking"
  /\ exposed \cap RingFiles(r) \subseteq overlooked
  /\ state' = [state EXCEPT ![r] = "locked"]
  /\ UNCHANGED <<exposed, overlooked>>

Undo(r) ==
  /\ state[r] = "locking"
  /\ state' = [state EXCEPT ![r] = "unlocked"]
  /\ UNCHANGED <<exposed, overlooked>>

Unlock(r) ==
  /\ state[r] = "locked"
  /\ state' = [state EXCEPT ![r] = "unlocked"]
  /\ UNCHANGED <<exposed, overlooked>>

(* Checkouts, commits and failures change what is exposed and what is       *)
(* overlooked, never a key.                                                 *)
Touch ==
  /\ exposed' \subseteq Files /\ overlooked' \subseteq Files
  /\ UNCHANGED state

Next == Touch \/ \E r \in Rings : Begin(r) \/ Commit(r) \/ Undo(r) \/ Unlock(r)

Spec == Init /\ [][Next]_<<state, exposed, overlooked>>
=============================================================================
