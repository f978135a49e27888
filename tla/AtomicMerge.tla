----------------------------- MODULE AtomicMerge -----------------------------
(***************************************************************************)
(* What git expects of a merge driver: it replaces the file as a whole or  *)
(* not at all, and reports success only when the file is the merge of both *)
(* sides.  Otherwise git tells the user that there is a conflict.          *)
(***************************************************************************)
CONSTANTS
  Contents,  \* what the file can be
  Old,       \* the file as it was
  Running    \* the driver has not returned

VARIABLES
  wanted,  \* the contents that merge both sides: one, or none in a conflict
  file,    \* the file to be merged
  exit     \* what git learns from the driver

vars == <<wanted, file, exit>>

Init ==
  /\ wanted \in SUBSET Contents
  /\ file = Old
  /\ exit = Running

(* At most once.                                                            *)
Replace ==
  /\ exit = Running /\ file = Old
  /\ file' \in Contents
  /\ UNCHANGED <<wanted, exit>>

Succeed ==
  /\ exit = Running /\ file \in wanted
  /\ exit' = "merged"
  /\ UNCHANGED <<wanted, file>>

(* The driver fails, finds a conflict or dies.                              *)
Refuse ==
  /\ exit = Running
  /\ exit' \in {"conflict", "killed"}
  /\ UNCHANGED <<wanted, file>>

Next == Replace \/ Succeed \/ Refuse

Spec == Init /\ [][Next]_vars
=============================================================================
