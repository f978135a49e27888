---------------------------- MODULE AtomicFilters ----------------------------
(***************************************************************************)
(* What the filters promise: Git and its users see plaintext only.  A run  *)
(* of a filter takes the contents of a file at its start, or of a blob,    *)
(* and can deliver nothing else, to the index or to the worktree as well.  *)
(* Keys, ciphertexts and their cache do not exist at this level.           *)
(***************************************************************************)
CONSTANTS
  Files,     \* tracked secrets
  Contents,  \* what a file can say
  Procs      \* filter processes

VARIABLES
  work,      \* what each file says in the worktree
  index,     \* what its index entry says
  taken,     \* the file and the contents each running filter works on
  delivered  \* what it has delivered

vars == <<work, index, taken, delivered>>

Nothing == <<>>

Init ==
  /\ work \in [Files -> Contents] /\ index = work
  /\ taken = [p \in Procs |-> Nothing] /\ delivered = [p \in Procs |-> Nothing]

Edit(f, c) == work' = [work EXCEPT ![f] = c] /\ UNCHANGED <<index, taken, delivered>>

Take(p, f, c) ==
  /\ taken[p] = Nothing
  /\ taken' = [taken EXCEPT ![p] = <<f, c>>]
  /\ UNCHANGED <<work, index, delivered>>

Deliver(p) ==
  /\ taken[p] # Nothing
  /\ delivered' = [delivered EXCEPT ![p] = <<taken[p][2]>>]
  /\ UNCHANGED <<work, index, taken>>

End(p) ==
  /\ taken' = [taken EXCEPT ![p] = Nothing]
  /\ delivered' = [delivered EXCEPT ![p] = Nothing]

Stage(p) ==
  /\ delivered[p] # Nothing /\ End(p)
  /\ index' = [index EXCEPT ![taken[p][1]] = delivered[p][1]]
  /\ UNCHANGED work

CheckOut(p) ==
  /\ delivered[p] # Nothing /\ End(p)
  /\ index' = [index EXCEPT ![taken[p][1]] = delivered[p][1]]
  /\ work'  = [work EXCEPT ![taken[p][1]] = delivered[p][1]]

GiveUp(p) == End(p) /\ UNCHANGED <<work, index>>

Next ==
  \/ \E f \in Files, c \in Contents : Edit(f, c)
  \/ \E p \in Procs :
       \/ \E f \in Files, c \in Contents : Take(p, f, c)
       \/ Deliver(p) \/ Stage(p) \/ CheckOut(p) \/ GiveUp(p)

Spec == Init /\ [][Next]_vars
==============================================================================
