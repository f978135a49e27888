--------------------------- MODULE LockInvariant ---------------------------
(***************************************************************************)
(* The inductive invariant of LockTransaction, in named parts: what each   *)
(* stage of a command may assume about keys, journal and files.            *)
(***************************************************************************)
EXTENDS LockTransaction

Startup    == {"recover", "dropJournal"}
Replaying  == {"replay", "resmudge"}
BeforeKey  == {"run", "lock", "unlockCheck"}
Journaling == {"journal", "stage"}
Refreshing == {"refresh", "remove", "checkout"}
Deciding   == {"commit", "rollback"}

(* The secrets the refresh loop of the running command may touch.           *)
Targets == (RingFiles(cmd.ring) \cap Reachable) \ Sparse

Staged == cmd.ring \in locking

(* Which part of the command each step belongs to, and the loops it has     *)
(* nothing pending from.                                                    *)
PhaseInv ==
  /\ pc = "idle" => ~startup
  /\ pc \in Startup => startup
  /\ pc \notin Startup \cup Replaying => ~startup
  /\ pc = "idle" => ~sawLocking
  /\ pc = "unlockCheck" => cmd.op = "unlock"
  /\ pc = "lock" => cmd.op = "lock"
  /\ pc \in Journaling \cup Refreshing => cmd.op \in {"lock", "unlock"}
  /\ pc \in {"idle", "stage", "refresh", "checkout", "commit"} \cup Startup \cup BeforeKey
       => todo = {}
  /\ pc \in {"idle", "replay", "refresh", "commit", "rollback"} \cup Startup \cup BeforeKey
            \cup Journaling
       => inflight = {}
  /\ pc = "commit" => wts = {}
  /\ pc = "idle" => silent = {}
  /\ startup => silent \subseteq {"recovery"} \X Files

(* At most one staged key, and none outside the steps that handle it.       *)
MarkerInv ==
  /\ \A r, s \in locking : r = s
  /\ pc = "recover" => locking \subseteq ringsLeft
  /\ pc \in {"dropJournal", "commitJournal"} \cup Replaying \cup BeforeKey \cup Journaling
       => locking = {}
  /\ pc \in Refreshing => locking \subseteq {cmd.ring}
  /\ pc \in Deciding => Staged
  /\ pc \in Refreshing \cup Deciding /\ Staged =>
       cmd.ring \notin key /\ cmd.op = "lock"
  /\ pc \in Journaling => cmd.ring \in key /\ cmd.op = "lock"

(* The journal belongs to the ring whose key is staged.                     *)
JournalInv ==
  /\ jstate = "valid" => \A r \in locking \ key : jentries \subseteq RingFiles(r)
  /\ pc = "recover" /\ sawLocking => jstate = "none"
  /\ pc \in BeforeKey => jstate = "none"
  /\ pc = "journal" => todo \subseteq RingFiles(cmd.ring)
  /\ pc = "stage" \/ (pc \in Refreshing \cup Deciding /\ Staged)
       => jstate = "valid" /\ jentries \subseteq RingFiles(cmd.ring)

(* The loops after startup recovery keep to the secrets of the command's    *)
(* ring, and no loop removes a file outside the sparse checkout.            *)
RingInv ==
  /\ pc \in Refreshing \/ (pc \in Replaying /\ ~startup) =>
       todo \cup inflight \subseteq RingFiles(cmd.ring)
  /\ pc \in Refreshing => todo \cap Sparse = {}
  /\ pc \in Refreshing \cup {"resmudge"} => inflight \cap Sparse = {}

(* A loop that is under way has something left to do.                       *)
LoopInv ==
  /\ pc = "remove" => todo # {}
  /\ pc \in {"resmudge", "checkout"} => inflight # {}

(* An edit the running command has not looked at since it was made: lock    *)
(* looks for edits in every worktree, unlock again in each it comes to.     *)
Unseen(f) == f \in lateEdits \/ <<"status", f>> \in silent

EditInv ==
  /\ pc \in {"lock"} \cup Journaling \cup Refreshing /\ cmd.op = "lock" /\ ~cmd.force =>
       \A f \in RingFiles(cmd.ring) \ Sparse : disk[f] = "edited" => Unseen(f)
  /\ pc \in Refreshing /\ ~cmd.force =>
       \A f \in todo \cup inflight : disk[f] = "edited" => Unseen(f)
  /\ pc = "resmudge" =>
       \A f \in inflight : disk[f] = "edited" => f \in lateEdits

(* A file outside the sparse checkout is not in the worktree.               *)
SparseInv == \A f \in Sparse : disk[f] = "missing"

(* What also holds when drives come and go in the middle of a command.      *)
CoreInv == /\ TypeOK /\ PhaseInv /\ MarkerInv /\ JournalInv /\ RingInv
           /\ LoopInv /\ EditInv /\ SparseInv

(* The journal lists the targets of the transaction it belongs to, but for  *)
(* what git did not tell when it was written.                               *)
TargetInv ==
  /\ pc = "journal" =>
       \A f \in RingFiles(cmd.ring) \cap Reachable :
         f \in todo \/ <<"journal", f>> \in silent
  /\ pc = "stage" \/ (pc \in Refreshing \cup Deciding /\ Staged) =>
       \A f \in RingFiles(cmd.ring) \cap Reachable :
         f \in jentries \/ <<"journal", f>> \in silent

(* A replay runs with the key of every journalled file in place, and what   *)
(* it has passed is no longer damaged.                                      *)
ReplayInv ==
  pc \in Replaying =>
    /\ jstate # "torn"
    /\ jstate = "valid" => \A f \in jentries : RingOf[f[2]] \in key
    /\ jstate = "valid" =>
         \A f \in jentries \ todo : Damaged(f) => <<"recovery", f>> \in silent

(* A scan has left no ciphertext of an unlocked ring behind it.             *)
ScanInv ==
  pc \in Replaying /\ Scanning =>
    \A f \in Reachable \ todo :
      disk[f] = "cipher" /\ RingOf[f[2]] \in key =>
        <<"recovery", f>> \in silent

(* The refresh loop: what is removed and checked out, and that a worktree   *)
(* it has left holds no decrypted secret of a ring being locked, but those  *)
(* it was not told of or could not unlink.                                  *)
RefreshInv ==
  /\ pc \in Refreshing => todo \cup inflight \subseteq Targets
  /\ pc \in Refreshing \cup {"commit"} /\ Staged =>
       \A f \in Targets :
         f[1] \notin wts /\ f \notin todo /\ disk[f] = "plain" =>
           <<"refresh", f>> \in silent

IInv == CoreInv /\ TargetInv /\ ReplayInv /\ ScanInv /\ RefreshInv

-----------------------------------------------------------------------------
(* How far a command is from its return: the part of it that runs, then the *)
(* rings recovery and the worktrees the refresh have not visited, then the  *)
(* stage of that visit and the files it has still to remove or write.       *)
Phase ==
  CASE startup -> 8
    [] pc = "run" -> 7
    [] pc \in {"lock", "unlockCheck"} -> 6
    [] pc = "journal" -> 5
    [] pc = "stage" -> 4
    [] pc \in Refreshing -> 3
    [] pc \in Deciding -> 2
    [] pc \in {"commitJournal"} \cup Replaying /\ ~startup -> 1
    [] pc = "idle" -> 0

Visit ==
  CASE pc = "remove" -> 2
    [] pc \in {"checkout", "dropJournal"} \cup Replaying -> 1
    [] OTHER -> 0

Fewer(s, t) == s \subseteq t /\ s # t

Position == <<pc, startup, ringsLeft, wts, todo, inflight>>

Closer ==
  \/ Phase' < Phase
  \/ Phase' = Phase /\ Fewer(ringsLeft', ringsLeft)
  \/ /\ Phase' = Phase /\ ringsLeft' = ringsLeft
     /\ \/ Fewer(wts', wts)
        \/ wts' = wts /\ Visit' < Visit
        \/ wts' = wts /\ Visit' = Visit /\ Fewer(todo', todo)
        \/ wts' = wts /\ Visit' = Visit /\ todo' = todo /\ Fewer(inflight', inflight)
=============================================================================
