------------------------------- MODULE MCLock -------------------------------
EXTENDS LockInvariant

CONSTANTS main, linked, pathA, pathB, default, prod

AllDefault == [p \in Paths |-> default]
OnePerRing == [p \in Paths |-> IF p = pathA THEN default ELSE prod]
NoFile == {}
LinkedSparse == {<<linked, pathB>>}

(* git ls-files keeps anything back, or fails as a whole in some worktrees.  *)
AnyFiles == SUBSET Files
WholeWorktrees == {ws \X Paths : ws \in SUBSET Worktrees}
=============================================================================
