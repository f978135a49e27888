----------------------------- MODULE RecoveryLock -----------------------------
(***************************************************************************)
(* recovery.lock, the lock of every command that changes state.            *)
(*                                                                         *)
(* The lock is an flock on an open file, so it belongs to an inode and the *)
(* kernel drops it with the process.  The path, however, may come to name  *)
(* another inode, none, or a symbolic link: a process that has opened the  *)
(* file may end up with the lock of a file nobody else opens any more.     *)
(* acquire therefore compares the inode it has locked with the one the     *)
(* path names, and starts again when they differ.  It polls, and gives up  *)
(* when its time is over.                                                  *)
(***************************************************************************)
EXTENDS Naturals

CONSTANTS
  Procs,            \* processes that want the lock
  Inodes,           \* inode numbers; a free one may be used again
  MaxReplacements,  \* bound on what happens to the path
  ReplacedWhileHeld,\* whether it also happens while a process is inside
  NoFile, Link,     \* the path names nothing, a symbolic link
  NoOne             \* nobody has the lock of an inode

ASSUME LockValuesDiffer == /\ NoFile \notin Inodes /\ Link \notin Inodes
                           /\ NoFile # Link /\ NoOne \notin Procs
ASSUME LockBoundsType == MaxReplacements \in Nat /\ ReplacedWhileHeld \in BOOLEAN

VARIABLES
  path,     \* what recovery.lock names
  owner,    \* who has the lock of each inode
  at,       \* the step each process is about to take
  fd,       \* the inode it has open
  expired,  \* its time is over
  replaced  \* how often something happened to the path

vars == <<path, owner, at, fd, expired, replaced>>

Waiting == {"open", "try", "verify"}
Steps   == Waiting \cup {"outside", "held", "failed"}
Inside  == {p \in Procs : at[p] = "held"}

Goto(p, s) == at' = [at EXCEPT ![p] = s]
Drop(p)    == fd' = [fd EXCEPT ![p] = NoFile]
Unlock(p)  == owner' = [i \in Inodes |-> IF owner[i] = p THEN NoOne ELSE owner[i]]

(* An inode number nobody uses.                                             *)
Fresh == Inodes \ ({path} \cup {fd[p] : p \in Procs})

Init ==
  /\ path \in Inodes \cup {NoFile, Link}
  /\ owner = [i \in Inodes |-> NoOne]
  /\ at = [p \in Procs |-> "outside"]
  /\ fd = [p \in Procs |-> NoFile]
  /\ expired = [p \in Procs |-> FALSE]
  /\ replaced = 0

-----------------------------------------------------------------------------
Acquire(p) ==
  /\ at[p] = "outside"
  /\ Goto(p, IF path = Link THEN "failed" ELSE "open")
  /\ expired' = [expired EXCEPT ![p] = FALSE]
  /\ UNCHANGED <<path, owner, fd, replaced>>

(* openat with O_CREAT and O_NOFOLLOW.                                      *)
Open(p) ==
  /\ at[p] = "open" /\ path # Link
  /\ \/ path # NoFile /\ path' = path
     \/ path = NoFile /\ path' \in Fresh
  /\ fd' = [fd EXCEPT ![p] = path']
  /\ Goto(p, "try")
  /\ UNCHANGED <<owner, expired, replaced>>

(* An error from open is retried until the time is over.                    *)
OpenFails(p) ==
  /\ at[p] = "open" /\ expired[p]
  /\ Goto(p, "failed")
  /\ UNCHANGED <<path, owner, fd, expired, replaced>>

(* The checks for a symbolic link before and after opening.                 *)
MeetsLink(p) ==
  /\ at[p] \in {"open", "try"} /\ path = Link
  /\ Goto(p, "failed") /\ Drop(p)
  /\ UNCHANGED <<path, owner, expired, replaced>>

TryLock(p) ==
  /\ at[p] = "try" /\ owner[fd[p]] = NoOne
  /\ owner' = [owner EXCEPT ![fd[p]] = p]
  /\ Goto(p, "verify")
  /\ UNCHANGED <<path, fd, expired, replaced>>

(* Mutant: the deadline is not tested while another process is inside.      *)
LockBusyForEver(p) ==
  /\ at[p] = "try" /\ owner[fd[p]] # NoOne
  /\ Goto(p, "open") /\ Drop(p)
  /\ UNCHANGED <<path, owner, expired, replaced>>

LockBusy(p) ==
  /\ at[p] = "try" /\ owner[fd[p]] # NoOne
  /\ Goto(p, IF expired[p] THEN "failed" ELSE "open") /\ Drop(p)
  /\ UNCHANGED <<path, owner, expired, replaced>>

(* Mutant: the lock is trusted whatever the path names.                     *)
Trust(p) ==
  /\ at[p] = "verify"
  /\ Goto(p, "held")
  /\ UNCHANGED <<path, owner, fd, expired, replaced>>

Verify(p) ==
  /\ at[p] = "verify" /\ path = fd[p]
  /\ Goto(p, "held")
  /\ UNCHANGED <<path, owner, fd, expired, replaced>>

(* Unlinked or replaced: this path back to the loop tests no deadline.      *)
VerifyFails(p) ==
  /\ at[p] = "verify" /\ path # fd[p]
  /\ Unlock(p) /\ Drop(p)
  /\ Goto(p, IF path = Link THEN "failed" ELSE "open")
  /\ UNCHANGED <<path, expired, replaced>>

(* The guard is dropped, or the error is returned.                          *)
Release(p) ==
  /\ at[p] \in {"held", "failed"}
  /\ Unlock(p) /\ Drop(p) /\ Goto(p, "outside")
  /\ UNCHANGED <<path, expired, replaced>>

-----------------------------------------------------------------------------
(* Mutant: the lock file outlives its owner, as a pid file would.           *)
KillLeavingLock(p) ==
  /\ at[p] # "outside"
  /\ Drop(p) /\ Goto(p, "outside")
  /\ UNCHANGED <<path, owner, expired, replaced>>

(* The kernel closes the files of a killed process.                         *)
Kill(p) ==
  /\ at[p] # "outside"
  /\ Unlock(p) /\ Drop(p) /\ Goto(p, "outside")
  /\ UNCHANGED <<path, expired, replaced>>

Expire(p) ==
  /\ at[p] \in Waiting /\ ~expired[p]
  /\ expired' = [expired EXCEPT ![p] = TRUE]
  /\ UNCHANGED <<path, owner, at, fd, replaced>>

(* Somebody removes the file or puts another one in its place.              *)
Replace ==
  /\ replaced < MaxReplacements
  /\ Inside = {} \/ ReplacedWhileHeld
  /\ path' \in (Fresh \cup {NoFile, Link}) \ {path}
  /\ replaced' = replaced + 1
  /\ UNCHANGED <<owner, at, fd, expired>>

(* What a process does as long as it runs.                                  *)
Acquiring(p) ==
  Open(p) \/ MeetsLink(p) \/ TryLock(p) \/ LockBusy(p) \/ Verify(p) \/ VerifyFails(p)

Next ==
  \/ Replace
  \/ \E p \in Procs :
       Acquire(p) \/ Acquiring(p) \/ OpenFails(p) \/ Release(p) \/ Kill(p) \/ Expire(p)

Spec == Init /\ [][Next]_vars

(* Time passes and running processes run; nobody has to leave the lock.     *)
FairSpec ==
  Spec /\ \A p \in Procs : WF_vars(Acquiring(p)) /\ WF_vars(Expire(p))

-----------------------------------------------------------------------------
TypeOK ==
  /\ path \in Inodes \cup {NoFile, Link}
  /\ owner \in [Inodes -> Procs \cup {NoOne}]
  /\ at \in [Procs -> Steps]
  /\ fd \in [Procs -> Inodes \cup {NoFile}]
  /\ expired \in [Procs -> BOOLEAN]
  /\ replaced \in Nat

(* The inductive invariant: a process between its flock and its release is  *)
(* the owner of the inode it has open, an owner is such a process, and the  *)
(* path names the file of whoever is inside.                                *)
OwnerInv ==
  /\ \A p \in Procs : at[p] \in {"verify", "held"} =>
       fd[p] \in Inodes /\ owner[fd[p]] = p
  /\ \A p \in Procs : at[p] = "try" => fd[p] \in Inodes
  /\ \A i \in Inodes : owner[i] # NoOne =>
       at[owner[i]] \in {"verify", "held"} /\ fd[owner[i]] = i
PathInv == ~ReplacedWhileHeld => \A p \in Inside : fd[p] = path
IInv == TypeOK /\ OwnerInv /\ PathInv

Mutex == INSTANCE AtomicMutex WITH holders <- Inside

(* acquire_recovery_lock is a mutex (git.rs:454): files that are unlinked   *)
(* or replaced while processes wait, inode numbers used again and kills     *)
(* included, as long as nobody replaces the file of the process inside.     *)
ImplementsAtomicMutex == Mutex!Spec

(* A call of acquire returns, with the lock or without it, although the     *)
(* process inside may never leave and the file may be replaced (git.rs:494).*)
AcquireReturns == \A p \in Procs : at[p] \in Waiting ~> at[p] \notin Waiting

(* The kernel releases the lock of a killed process (git.rs:441): whoever   *)
(* gives up because the lock is taken has a live process in its way, which  *)
(* has that very file open.                                                 *)
BlockedByTheLiving ==
  [][\A p \in Procs : at[p] = "try" /\ at'[p] = "failed" /\ path # Link =>
       \E q \in Procs \ {p} : at[q] \in {"verify", "held"} /\ fd[q] = fd[p]]_vars
=============================================================================
