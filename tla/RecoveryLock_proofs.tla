------------------------- MODULE RecoveryLock_proofs -------------------------
(***************************************************************************)
(* Mutual exclusion of recovery.lock for any number of processes, inodes   *)
(* and replacements of the file.                                           *)
(***************************************************************************)
EXTENDS RecoveryLock, TLAPS

(* The invariant holds before the first process comes.                      *)
LEMMA InitIInv == Init => IInv
BY LockValuesDiffer DEF Init, IInv, TypeOK, OwnerInv, PathInv, Inside, Steps

(* A process that opens the file has an inode and no lock.                  *)
LEMMA OpenKeeps == ASSUME IInv, NEW p \in Procs, Open(p) PROVE IInv'
<1> USE LockValuesDiffer DEF IInv
<1>1. path' \in Inodes
  BY DEF Open, Fresh, TypeOK
<1>2. TypeOK'
  BY <1>1 DEF Open, Goto, TypeOK, Steps, Waiting
<1>3. OwnerInv'
  BY <1>1 DEF Open, Goto, TypeOK, OwnerInv
<1>4. PathInv'
  <2>1. Inside' \subseteq Inside
    BY DEF Open, Goto, Inside, TypeOK
  <2>2. \A q \in Inside : q # p /\ fd[q] \in Inodes
    BY DEF Open, Inside, OwnerInv
  <2>. QED BY <2>1, <2>2, <1>1 DEF Open, PathInv, TypeOK, Inside
<1>. QED BY <1>2, <1>3, <1>4

(* The flock makes its process the only owner; nothing else changes hands.  *)
LEMMA TryLockKeeps == ASSUME IInv, NEW p \in Procs, TryLock(p) PROVE IInv'
<1> USE LockValuesDiffer DEF IInv
<1>1. fd[p] \in Inodes
  BY DEF TryLock, OwnerInv
<1>2. TypeOK'
  BY <1>1 DEF TryLock, Goto, TypeOK, Steps, Waiting
<1>3. OwnerInv'
  BY <1>1 DEF TryLock, Goto, TypeOK, OwnerInv
<1>4. PathInv'
  BY DEF TryLock, Goto, TypeOK, PathInv, Inside
<1>. QED BY <1>2, <1>3, <1>4

(* A process that lets go owns nothing and is not inside.                   *)
LEMMA LettingGoKeeps ==
  ASSUME IInv, NEW p \in Procs, NEW s \in {"open", "failed", "outside"},
         Unlock(p), Drop(p), Goto(p, s), UNCHANGED <<path, expired, replaced>>
  PROVE  IInv'
<1> USE LockValuesDiffer DEF IInv
<1>1. TypeOK'
  BY DEF Unlock, Drop, Goto, TypeOK, Steps, Waiting
<1>2. \A i \in Inodes : owner'[i] = IF owner[i] = p THEN NoOne ELSE owner[i]
  BY DEF Unlock
<1>3. \A q \in Procs : q # p => at'[q] = at[q] /\ fd'[q] = fd[q]
  BY DEF Drop, Goto, TypeOK
<1>4. at'[p] = s
  BY DEF Goto, TypeOK
<1>5. OwnerInv'
  BY <1>2, <1>3, <1>4 DEF OwnerInv, TypeOK
<1>6. PathInv'
  BY <1>3, <1>4 DEF PathInv, Inside
<1>. QED BY <1>1, <1>5, <1>6

(* The other ways out of acquire: no lock is held, none is taken.           *)
LEMMA TurningAwayKeeps ==
  ASSUME IInv, NEW p \in Procs, MeetsLink(p) \/ LockBusy(p) PROVE IInv'
<1> USE LockValuesDiffer DEF IInv
<1>1. TypeOK'
  BY DEF MeetsLink, LockBusy, Drop, Goto, TypeOK, Steps, Waiting
<1>2. \A q \in Procs : q # p => at'[q] = at[q] /\ fd'[q] = fd[q]
  BY DEF MeetsLink, LockBusy, Drop, Goto, TypeOK
<1>3. /\ at[p] \in {"open", "try"} /\ at'[p] \in {"failed", "open"}
      /\ path' = path /\ owner' = owner
  BY DEF MeetsLink, LockBusy, Goto, TypeOK
<1>4. OwnerInv'
  BY <1>2, <1>3 DEF OwnerInv, TypeOK
<1>5. PathInv'
  BY <1>2, <1>3 DEF PathInv, Inside
<1>. QED BY <1>1, <1>4, <1>5

(* A process comes inside only with the file the path names.                *)
LEMMA VerifyKeeps == ASSUME IInv, NEW p \in Procs, Verify(p) PROVE IInv'
<1> USE LockValuesDiffer DEF IInv
<1>1. TypeOK'
  BY DEF Verify, Goto, TypeOK, Steps, Waiting
<1>2. OwnerInv'
  BY DEF Verify, Goto, TypeOK, OwnerInv
<1>3. PathInv'
  BY DEF Verify, Goto, TypeOK, PathInv, Inside
<1>. QED BY <1>1, <1>2, <1>3

(* Every step of the lock preserves the invariant.                          *)
LEMMA NextIInv == IInv /\ [Next]_vars => IInv'
<1> SUFFICES ASSUME IInv, [Next]_vars PROVE IInv'
  OBVIOUS
<1> USE LockValuesDiffer
<1>1. CASE UNCHANGED vars
  BY <1>1 DEF vars, IInv, TypeOK, OwnerInv, PathInv, Inside
<1>2. CASE Replace
  <2>1. TypeOK'
    BY <1>2, LockBoundsType DEF Replace, IInv, TypeOK, Fresh
  <2>. QED BY <1>2, <2>1 DEF Replace, IInv, OwnerInv, PathInv, Inside
<1>3. ASSUME NEW p \in Procs, Acquire(p) PROVE IInv'
  <2>1. TypeOK'
    BY <1>3 DEF Acquire, Goto, IInv, TypeOK, Steps, Waiting
  <2>. QED BY <1>3, <2>1 DEF Acquire, Goto, IInv, TypeOK, OwnerInv, PathInv, Inside
<1>4. ASSUME NEW p \in Procs, VerifyFails(p) \/ Release(p) \/ Kill(p) PROVE IInv'
  BY <1>4, LettingGoKeeps DEF VerifyFails, Release, Kill
<1>5. ASSUME NEW p \in Procs, OpenFails(p) PROVE IInv'
  <2>1. TypeOK'
    BY <1>5 DEF OpenFails, Goto, IInv, TypeOK, Steps, Waiting
  <2>. QED BY <1>5, <2>1 DEF OpenFails, Goto, IInv, TypeOK, OwnerInv, PathInv, Inside
<1>6. ASSUME NEW p \in Procs, Expire(p) PROVE IInv'
  BY <1>6 DEF Expire, IInv, TypeOK, OwnerInv, PathInv, Inside
<1>. QED
  BY <1>1, <1>2, <1>3, <1>4, <1>5, <1>6, OpenKeeps, TryLockKeeps, TurningAwayKeeps,
     VerifyKeeps DEF Next, Acquiring

-----------------------------------------------------------------------------
(* Who owns which inode, and whose file the path names, at every moment of  *)
(* any execution (git.rs:479-586).                                          *)
THEOREM Invariance == Spec => []IInv
BY InitIInv, NextIInv, PTL DEF Spec

(* With the invariant there is at most one process inside.                  *)
LEMMA AtMostOneInside ==
  ASSUME IInv, ~ReplacedWhileHeld, NEW p \in Inside, NEW q \in Inside PROVE p = q
BY DEF IInv, PathInv, OwnerInv, Inside

(* Every step enters, leaves, or is none of the mutex's business.           *)
LEMMA StepImplementsMutex ==
  ASSUME ~ReplacedWhileHeld
  PROVE  IInv /\ IInv' /\ [Next]_vars => [Mutex!Next]_Inside
<1> SUFFICES ASSUME IInv, IInv', [Next]_vars PROVE [Mutex!Next]_Inside
  OBVIOUS
<1>1. ASSUME NEW p \in Procs, Verify(p) PROVE Mutex!Take(p)
  <2>1. Inside' = Inside \cup {p} /\ p \in Inside'
    BY <1>1 DEF Verify, Goto, Inside, IInv, TypeOK
  <2>2. \A q \in Inside' : q = p
    BY <2>1, AtMostOneInside DEF IInv, PathInv, OwnerInv, Inside
  <2>3. p \notin Inside
    BY <1>1 DEF Verify, Inside
  <2>. QED BY <2>1, <2>2, <2>3 DEF Mutex!Take
<1>2. ASSUME NEW p \in Procs, Release(p) \/ Kill(p) \/ VerifyFails(p)
      PROVE  Mutex!Give(p) \/ UNCHANGED Inside
  <2>1. Inside' = Inside \ {p}
    BY <1>2 DEF Release, Kill, VerifyFails, Goto, Inside, IInv, TypeOK
  <2>2. p \in Inside => Inside = {p}
    BY AtMostOneInside
  <2>. QED BY <2>1, <2>2 DEF Mutex!Give
<1>3. ASSUME NEW p \in Procs,
             Acquire(p) \/ Open(p) \/ OpenFails(p) \/ MeetsLink(p) \/ TryLock(p)
               \/ LockBusy(p) \/ Expire(p)
      PROVE  UNCHANGED Inside
  BY <1>3 DEF Acquire, Open, OpenFails, MeetsLink, TryLock, LockBusy, Expire, Goto, Inside,
              IInv, TypeOK
<1>4. CASE Replace \/ UNCHANGED vars
  BY <1>4 DEF Replace, vars, Inside
<1>. QED BY <1>1, <1>2, <1>3, <1>4 DEF Next, Acquiring, Mutex!Next

(* recovery.lock is a mutex, whatever replaces its file while processes     *)
(* wait (git.rs:454-586); outside a held lock the file may be replaced      *)
(* freely.                                                                  *)
THEOREM Refinement == ASSUME ~ReplacedWhileHeld PROVE Spec => ImplementsAtomicMutex
<1>1. Init => Mutex!Init
  BY DEF Init, Mutex!Init, Inside
<1>2. IInv /\ IInv' /\ [Next]_vars => [Mutex!Next]_Inside
  BY StepImplementsMutex
<1>. QED BY <1>1, <1>2, Invariance, PTL DEF Spec, ImplementsAtomicMutex, Mutex!Spec

(* What is left when the file is replaced under the process inside: two     *)
(* processes are inside only with different files open, of which the path   *)
(* names one at most (git.rs:545).                                          *)
THEOREM OneInsidePerFile ==
  Spec => [](\A p, q \in Inside : fd[p] = fd[q] => p = q)
<1>1. IInv => \A p, q \in Inside : fd[p] = fd[q] => p = q
  BY DEF IInv, OwnerInv, Inside
<1>. QED BY <1>1, Invariance, PTL

(* Giving up on a taken lock means that a living process has it             *)
(* (git.rs:441): the lock of a killed process blocks nobody.                *)
THEOREM NoDeadOwners == Spec => BlockedByTheLiving
<1>1. ASSUME IInv, [Next]_vars, NEW p \in Procs,
             at[p] = "try", at'[p] = "failed", path # Link
      PROVE  \E q \in Procs \ {p} : at[q] \in {"verify", "held"} /\ fd[q] = fd[p]
  <2>1. LockBusy(p)
    BY <1>1 DEF Next, Acquiring, Replace, Acquire, Open, OpenFails, MeetsLink, TryLock,
                LockBusy, Verify, VerifyFails, Release, Kill, Expire, Goto, vars, IInv, TypeOK
  <2>2. owner[fd[p]] \in Procs /\ fd[p] \in Inodes
    BY <1>1, <2>1 DEF LockBusy, IInv, TypeOK, OwnerInv
  <2>. QED BY <1>1, <2>1, <2>2 DEF LockBusy, IInv, OwnerInv
<1>2. IInv /\ [Next]_vars =>
        [\A p \in Procs : at[p] = "try" /\ at'[p] = "failed" /\ path # Link =>
           \E q \in Procs \ {p} : at[q] \in {"verify", "held"} /\ fd[q] = fd[p]]_vars
  BY <1>1
<1>. QED BY <1>2, Invariance, PTL DEF Spec, BlockedByTheLiving
=============================================================================
