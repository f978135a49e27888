-------------------------- MODULE RekeyBackup_proofs --------------------------
(***************************************************************************)
(* Proofs about what is kept when rotations and rollbacks are killed, for  *)
(* any recipients, files, commands and generations.                        *)
(***************************************************************************)
EXTENDS RekeyBackup, RekeyTransaction_proofs

USE DEF metaVars, logVars, secretVars, gitVars, counters, Unnoticed

-----------------------------------------------------------------------------
(* What holds of the steps of SteadySpec holds of stuttering too.           *)
LEMMA SteadyStep ==
  ASSUME IInv, [Next /\ WindowClosed]_vars PROVE [Next]_vars /\ WindowClosed
BY DEF IInv, TypeOK, CountersOK, WindowClosed, Crash, PurgeFails, vars

(* No other process replaces a key.                                         *)
LEMMA AloneStep ==
  ASSUME Alone, IInv, outside = 0, [Next]_vars PROVE outside' = 0
<1> USE BoundsType DEF Alone, IInv, TypeOK, CountersOK, ConsistencyInv
<1>1. ASSUME NEW op \in Ops, NEW force \in Forces, Start(op, force)
      PROVE  outside' = 0
  BY <1>1 DEF Start
<1>2. CASE Recovery
  BY <1>2 DEF Recovery, NothingToRecover, RecoverCompleted, RecoverRefuses,
              RestorePub, RestoreEnvelope, StartPruning, PruneFile,
              FinishPruning, RestoreKey, DropJournal
<1>3. CASE Purge
  BY <1>3 DEF Purge, FinishPurge, PurgeFails, PurgePart
<1>4. CASE Rekey
  BY <1>4 DEF Rekey, BeginRekey, CreateBackup, CreateJournal, SyncJournal,
              WrapEnvelopes, WrapFails, ActivateEnvelope, WritePub, SaveKey,
              StageSecrets, StageFails, FinishRekey
<1>5. CASE OtherCommand
  BY <1>5 DEF OtherCommand, Refuse, Lock, RewrapAll, Unlock, AddRecipient,
              RemoveRecipient
<1>6. CASE Environment
  <2>1. CASE Crash
    BY <2>1 DEF Crash
  <2>2. CASE Pull
    BY <2>2 DEF Pull
  <2>3. CASE RefresherStart \/ RefresherSave \/ RefresherGivesUp
    BY <2>3 DEF RefresherStart, RefresherSave, RefresherGivesUp
  <2>4. CASE GitCommit
    BY <2>4 DEF GitCommit
  <2>5. ASSUME NEW f \in Files, UserEdits(f) \/ GitAdd(f)
        PROVE  outside' = 0
    BY <2>5 DEF UserEdits, GitAdd, Renormalize
  <2>6. QED
    BY <1>6, <2>1, <2>2, <2>3, <2>4, <2>5 DEF Environment
<1>7. CASE UNCHANGED vars
  BY <1>7 DEF vars
<1>8. QED
  BY <1>1, <1>2, <1>3, <1>4, <1>5, <1>6, <1>7 DEF Next, CommandStep

(* The backup stays whole while it may be needed.                           *)
LEMMA WholeStep ==
  ASSUME Alone, IInv, BackupInv, [Next]_vars, WindowClosed
  PROVE  WholeInv'
<1> USE BoundsType DEF Alone, IInv, TypeOK, CountersOK, Return,
            Rotating, Untouched, Replacing, Replaced, Restoring, Purging,
            WindowClosed, BackupInv, WholeInv, KeptInv, PhaseInv, OrderInv,
            ReplaceInv, RestoreInv, ConsistencyInv, Activated, BackupUsable,
            Gens, Metadata, Names
<1>1. ASSUME NEW op \in Ops, NEW force \in Forces, Start(op, force)
      PROVE  WholeInv'
  BY <1>1 DEF Start
<1>2. CASE Recovery
  <2>1. CASE RestoreKey
    BY <2>1 DEF RestoreKey
  <2>2. CASE RestorePub
    BY <2>2 DEF RestorePub
  <2>3. ASSUME NEW n \in Names, RestoreEnvelope(n) \/ PruneFile(n)
        PROVE  WholeInv'
    BY <2>3 DEF RestoreEnvelope, PruneFile
  <2>4. CASE DropJournal \/ NothingToRecover
    BY <2>4 DEF DropJournal, NothingToRecover
  <2>5. CASE RecoverCompleted \/ RecoverRefuses
    BY <2>5 DEF RecoverCompleted, RecoverRefuses
  <2>6. CASE StartPruning \/ FinishPruning
    BY <2>6 DEF StartPruning, FinishPruning
  <2>7. QED
    BY <1>2, <2>1, <2>2, <2>3, <2>4, <2>5, <2>6 DEF Recovery
<1>3. CASE Purge
  BY <1>3 DEF Purge, FinishPurge, PurgeFails, PurgePart
<1>4. CASE Rekey
  BY <1>4 DEF Rekey, BeginRekey, CreateBackup, CreateJournal, SyncJournal,
              WrapEnvelopes, WrapFails, ActivateEnvelope, WritePub, SaveKey,
              StageSecrets, StageFails, FinishRekey
<1>5. CASE OtherCommand
  BY <1>5 DEF OtherCommand, Refuse, Lock, RewrapAll, Unlock, AddRecipient,
              RemoveRecipient
<1>6. CASE Environment
  <2>1. CASE Crash
    BY <2>1 DEF Crash
  <2>2. CASE Pull
    BY <2>2 DEF Pull
  <2>3. CASE RefresherStart \/ RefresherSave \/ RefresherGivesUp
    BY <2>3 DEF RefresherStart, RefresherSave, RefresherGivesUp
  <2>4. CASE GitCommit
    BY <2>4 DEF GitCommit
  <2>5. ASSUME NEW f \in Files, UserEdits(f) \/ GitAdd(f)
        PROVE  WholeInv'
    <3>1. UNCHANGED <<metaVars, logVars, pc>>
      BY <2>5 DEF UserEdits, GitAdd
    <3>2. QED
      BY <3>1
  <2>6. QED
    BY <1>6, <2>1, <2>2, <2>3, <2>4, <2>5 DEF Environment
<1>7. CASE UNCHANGED vars
  BY <1>7 DEF vars
<1>8. QED
  BY <1>1, <1>2, <1>3, <1>4, <1>5, <1>6, <1>7 DEF Next, CommandStep

(* Envelopes are neither added nor lost.                                    *)
LEMMA KeptStep ==
  ASSUME Alone, IInv, BackupInv, [Next]_vars, WindowClosed
  PROVE  KeptInv'
<1> USE BoundsType DEF Alone, IInv, TypeOK, CountersOK, Return,
            Rotating, Untouched, Replacing, Replaced, Restoring, Purging,
            WindowClosed, BackupInv, WholeInv, KeptInv, PhaseInv, OrderInv,
            ReplaceInv, RestoreInv, ConsistencyInv, Uniform, Current,
            Activated, BackupUsable, Gens, Metadata, Names
<1>1. ASSUME NEW op \in Ops, NEW force \in Forces, Start(op, force)
      PROVE  KeptInv'
  BY <1>1 DEF Start
<1>2. CASE Recovery
  BY <1>2 DEF Recovery, NothingToRecover, RecoverCompleted, RecoverRefuses,
              RestorePub, RestoreEnvelope, StartPruning, PruneFile,
              FinishPruning, RestoreKey, DropJournal
<1>3. CASE Purge
  BY <1>3 DEF Purge, FinishPurge, PurgeFails, PurgePart
<1>4. CASE Rekey
  BY <1>4 DEF Rekey, BeginRekey, CreateBackup, CreateJournal, SyncJournal,
              WrapEnvelopes, WrapFails, ActivateEnvelope, WritePub, SaveKey,
              StageSecrets, StageFails, FinishRekey
<1>5. CASE OtherCommand
  BY <1>5 DEF OtherCommand, Refuse, Lock, RewrapAll, Unlock, AddRecipient,
              RemoveRecipient
<1>6. CASE Environment
  <2>1. CASE Crash
    BY <2>1 DEF Crash
  <2>2. CASE Pull
    BY <2>2 DEF Pull
  <2>3. CASE RefresherStart \/ RefresherSave \/ RefresherGivesUp
    BY <2>3 DEF RefresherStart, RefresherSave, RefresherGivesUp
  <2>4. CASE GitCommit
    BY <2>4 DEF GitCommit
  <2>5. ASSUME NEW f \in Files, UserEdits(f) \/ GitAdd(f)
        PROVE  KeptInv'
    BY <2>5 DEF UserEdits, GitAdd, Renormalize
  <2>6. QED
    BY <1>6, <2>1, <2>2, <2>3, <2>4, <2>5 DEF Environment
<1>7. CASE UNCHANGED vars
  BY <1>7 DEF vars
<1>8. QED
  BY <1>1, <1>2, <1>3, <1>4, <1>5, <1>6, <1>7 DEF Next, CommandStep

(* No rollback deletes an own envelope, as it only prunes what the backup    *)
(* does not have, and users keep their last one.                            *)
LEMMA OwnStep ==
  ASSUME Alone, IInv, BackupInv, OwnInv, [Next /\ OwnKept]_vars
  PROVE  OwnInv'
<1> USE DEF OwnInv, IInv, TypeOK, Names
<1>0. PICK m \in Mine : env[m] # 0
  BY DEF OwnInv
<1>a. m \in Recipients /\ m \in Names
  BY NamesType
<1> USE <1>0, <1>a
<1>1. ASSUME NEW op \in Ops, NEW force \in Forces, Start(op, force)
      PROVE  OwnInv'
  BY <1>1 DEF Start
<1>2. CASE Recovery
  <2>1. ASSUME NEW n \in Names, RestoreEnvelope(n)
        PROVE  OwnInv'
    <3>1. old.env[m] # 0
      BY <2>1 DEF BackupInv, KeptInv, PhaseInv, RestoreEnvelope, Restoring
    <3>2. QED
      BY <2>1, <3>1 DEF RestoreEnvelope
  <2>2. ASSUME NEW n \in Names, PruneFile(n)
        PROVE  OwnInv'
    <3>1. n \notin saved
      BY <2>2 DEF PruneFile, RestoreInv
    <3>2. pending /\ ~Activated
      BY <2>2, BoundsType DEF PruneFile, PhaseInv, OrderInv, RestoreInv,
           Activated, Restoring, Gens, Metadata
    <3>3. m \in saved
      BY <2>2, <3>2 DEF PruneFile, BackupInv, WholeInv, KeptInv, PhaseInv,
         Restoring, BackupUsable
    <3>4. QED
      BY <2>2, <3>1, <3>3 DEF PruneFile
  <2>3. QED
    BY <1>2, <2>1, <2>2 DEF Recovery, NothingToRecover, RecoverCompleted,
         RecoverRefuses, RestorePub, StartPruning, FinishPruning, RestoreKey,
         DropJournal
<1>3. CASE Purge
  BY <1>3 DEF Purge, FinishPurge, PurgeFails, PurgePart
<1>4. CASE Rekey
  <2>1. ASSUME NEW r \in Recipients, ActivateEnvelope(r)
        PROVE  OwnInv'
    BY <2>1 DEF ActivateEnvelope, OrderInv, Replacing
  <2>2. QED
    BY <1>4, <2>1 DEF Rekey, BeginRekey, CreateBackup, CreateJournal,
         SyncJournal, WrapEnvelopes, WrapFails, WritePub, SaveKey,
         StageSecrets, StageFails, FinishRekey
<1>5. CASE OtherCommand
  <2>1. ASSUME NEW r \in Recipients, AddRecipient(r)
        PROVE  OwnInv'
    BY <2>1 DEF AddRecipient
  <2>2. ASSUME NEW r \in Recipients, RemoveRecipient(r)
        PROVE  OwnInv'
    <3>1. CASE r = m
      <4>1. OwnKept
        BY <2>2 DEF RemoveRecipient, Enrolled, vars
      <4>2. PICK n \in Mine \ {m} : env[n] # 0
        BY <2>2, <3>1, <4>1 DEF OwnKept
      <4>3. env'[n] # 0
        BY <2>2, <3>1, <4>2, NamesType DEF RemoveRecipient
      <4>4. QED
        BY <4>2, <4>3
    <3>2. CASE r # m
      BY <2>2, <3>2 DEF RemoveRecipient
    <3>3. QED
      BY <3>1, <3>2
  <2>3. QED
    BY <1>5, <2>1, <2>2 DEF OtherCommand, Refuse, Lock, RewrapAll, Unlock
<1>6. CASE Environment
  <2>1. ~Pull
    BY BoundsType DEF Pull, BackupInv, Alone
  <2>2. QED
    BY <1>6, <2>1 DEF Environment, Crash, GitCommit, RefresherStart,
         RefresherSave, RefresherGivesUp, UserEdits, GitAdd
<1>7. CASE UNCHANGED vars
  BY <1>7 DEF vars
<1>8. QED
  BY <1>1, <1>2, <1>3, <1>4, <1>5, <1>6, <1>7 DEF Next, CommandStep

-----------------------------------------------------------------------------
(* The one kill is counted.                                                 *)
LEMMA KillStep ==
  ASSUME OneKill, IInv, KillInv, [Next]_vars
  PROVE  KillInv'
<1> USE BoundsType DEF OneKill, IInv, TypeOK, CountersOK, KillInv, PhaseInv,
            Broken, Return, Rotating, Untouched, Replacing, Replaced,
            Restoring, Purging
<1>1. ASSUME NEW op \in Ops, NEW force \in Forces, Start(op, force)
      PROVE  KillInv'
  BY <1>1 DEF Start
<1>2. CASE Recovery
  BY <1>2 DEF Recovery, NothingToRecover, RecoverCompleted, RecoverRefuses,
              RestorePub, RestoreEnvelope, StartPruning, PruneFile,
              FinishPruning, RestoreKey, DropJournal
<1>3. CASE Purge
  BY <1>3 DEF Purge, FinishPurge, PurgeFails, PurgePart
<1>4. CASE Rekey
  BY <1>4 DEF Rekey, BeginRekey, CreateBackup, CreateJournal, SyncJournal,
              WrapEnvelopes, WrapFails, ActivateEnvelope, WritePub, SaveKey,
              StageSecrets, StageFails, FinishRekey
<1>5. CASE OtherCommand
  BY <1>5 DEF OtherCommand, Refuse, Lock, RewrapAll, Unlock, AddRecipient,
              RemoveRecipient
<1>6. CASE Environment
  <2>1. CASE Crash
    BY <2>1 DEF Crash
  <2>2. CASE Pull
    BY <2>2 DEF Pull
  <2>3. CASE RefresherStart \/ RefresherSave \/ RefresherGivesUp
    BY <2>3 DEF RefresherStart, RefresherSave, RefresherGivesUp
  <2>4. CASE GitCommit
    BY <2>4 DEF GitCommit
  <2>5. ASSUME NEW f \in Files, UserEdits(f) \/ GitAdd(f)
        PROVE  KillInv'
    BY <2>5 DEF UserEdits, GitAdd, Renormalize
  <2>6. QED
    BY <1>6, <2>1, <2>2, <2>3, <2>4, <2>5 DEF Environment
<1>7. CASE UNCHANGED vars
  BY <1>7 DEF vars
<1>8. QED
  BY <1>1, <1>2, <1>3, <1>4, <1>5, <1>6, <1>7 DEF Next, CommandStep

(* Index entries are committed before their generation goes.                *)
LEMMA CommittedStep ==
  ASSUME OneKill, Alone, Careful, IInv, BackupInv, OwnInv, KillInv,
         SecretInv, [Next]_vars
  PROVE  CommittedInv'
<1> USE BoundsType DEF OneKill, Careful, OwnInv, SecretInv, CommittedInv,
            CipherInv, Anchor, CleanedUnder, Content, Dirty, IInv, TypeOK,
            CountersOK, Return, Broken, Rotating, Untouched, Replacing,
            Replaced, Restoring, Purging, KillInv, Alone, BackupInv, WholeInv,
            KeptInv, PhaseInv, OrderInv, ReplaceInv, RestoreInv,
            ConsistencyInv, Uniform, Current, Activated, BackupUsable, Gens,
            Metadata, Names
<1>1. ASSUME NEW op \in Ops, NEW force \in Forces, Start(op, force)
      PROVE  CommittedInv'
  BY <1>1 DEF Start
<1>2. CASE Recovery
  BY <1>2 DEF Recovery, NothingToRecover, RecoverCompleted, RecoverRefuses,
              RestorePub, RestoreEnvelope, StartPruning, PruneFile,
              FinishPruning, RestoreKey, DropJournal
<1>3. CASE Purge
  BY <1>3 DEF Purge, FinishPurge, PurgeFails, PurgePart
<1>4. CASE Rekey
  <2>1. CASE StageSecrets
    BY <2>1 DEF StageSecrets, Renormalize
  <2>2. CASE StageFails
    BY <2>2 DEF StageFails, Renormalize
  <2>3. CASE SaveKey
    BY <2>3 DEF SaveKey
  <2>4. ASSUME NEW r \in Recipients, ActivateEnvelope(r)
        PROVE  CommittedInv'
    BY <2>4 DEF ActivateEnvelope
  <2>5. CASE CreateBackup \/ CreateJournal \/ SyncJournal \/ WrapEnvelopes
    BY <2>5 DEF CreateBackup, CreateJournal, SyncJournal, WrapEnvelopes
  <2>6. CASE BeginRekey \/ WrapFails \/ WritePub \/ FinishRekey
    BY <2>6 DEF BeginRekey, WrapFails, WritePub, FinishRekey
  <2>7. QED
    BY <1>4, <2>1, <2>2, <2>3, <2>4, <2>5, <2>6 DEF Rekey
<1>5. CASE OtherCommand
  BY <1>5 DEF OtherCommand, Refuse, Lock, RewrapAll, Unlock, AddRecipient,
              RemoveRecipient
<1>6. CASE Environment
  <2>1. CASE Crash
    BY <2>1 DEF Crash
  <2>2. CASE Pull
    BY <2>2 DEF Pull
  <2>3. CASE RefresherStart \/ RefresherSave \/ RefresherGivesUp
    BY <2>3 DEF RefresherStart, RefresherSave, RefresherGivesUp
  <2>4. CASE GitCommit
    <3> SUFFICES ASSUME NEW f \in Files, f \notin staged', index[f] \notin history'
                 PROVE  Broken = 1 /\ index[f] = Anchor
      BY <2>4 DEF GitCommit
    <3>1. CASE f \notin staged
      BY <2>4, <3>1 DEF GitCommit
    <3>2. CASE f \in staged
      <4>0. PICK parts \in Commits :
              /\ "secrets" \in parts /\ key # 0 => \A g \in staged : index[g] = key
              /\ "secrets" \in parts
              /\ "metadata" \in parts
              /\ history' = history \cup ({env[m] : m \in Mine} \ {0})
        BY <2>4, <3>2 DEF GitCommit
      <4>1. key # 0 /\ index[f] = key
        BY <2>4, <3>2, <4>0
      <4>2. CASE pending /\ ~Activated
        BY <2>4, <4>1, <4>2 DEF GitCommit
      <4>3. CASE ~(pending /\ ~Activated)
        <5>1. key = pub /\ \A r \in Recipients : env[r] \in {0, pub}
          BY <4>1, <4>3
        <5>2. \E m \in Mine : env[m] = key /\ env[m] # 0
          BY <4>1, <5>1, NamesType
        <5>3. key \in history'
          BY <4>0, <4>1, <5>2
        <5>4. QED
          BY <4>1, <5>3
      <4>4. QED
        BY <4>2, <4>3
    <3>3. QED
      BY <3>1, <3>2
  <2>5. ASSUME NEW f \in Files, UserEdits(f) \/ GitAdd(f)
        PROVE  CommittedInv'
    BY <2>5 DEF UserEdits, GitAdd, Renormalize
  <2>6. QED
    BY <1>6, <2>1, <2>2, <2>3, <2>4, <2>5 DEF Environment
<1>7. CASE UNCHANGED vars
  BY <1>7 DEF vars
<1>8. QED
  BY <1>1, <1>2, <1>3, <1>4, <1>5, <1>6, <1>7 DEF Next, CommandStep

(* Only committed index entries are left as ciphertext.                     *)
LEMMA CipherStep ==
  ASSUME OneKill, Alone, Careful, IInv, BackupInv, OwnInv, KillInv,
         SecretInv, [Next /\ StatusAnswers]_vars
  PROVE  CipherInv'
<1> USE BoundsType DEF OneKill, Careful, OwnInv, SecretInv, CommittedInv,
            CipherInv, Anchor, CleanedUnder, Content, Dirty, Commands,
            Enrolled, IInv, TypeOK, CountersOK, Return, Broken, Rotating,
            Untouched, Replacing, Replaced, Restoring, Purging, KillInv, Alone,
            BackupInv, WholeInv, KeptInv, PhaseInv, OrderInv, ReplaceInv,
            RestoreInv, ConsistencyInv, Uniform, Current, Activated,
            BackupUsable, Gens, Metadata, Names
<1>1. ASSUME NEW op \in Ops, NEW force \in Forces, Start(op, force)
      PROVE  CipherInv'
  BY <1>1 DEF Start
<1>2. CASE Recovery
  BY <1>2 DEF Recovery, NothingToRecover, RecoverCompleted, RecoverRefuses,
              RestorePub, RestoreEnvelope, StartPruning, PruneFile,
              FinishPruning, RestoreKey, DropJournal
<1>3. CASE Purge
  BY <1>3 DEF Purge, FinishPurge, PurgeFails, PurgePart
<1>4. CASE Rekey
  <2>1. CASE StageSecrets
    BY <2>1 DEF StageSecrets, Renormalize
  <2>2. CASE StageFails
    BY <2>2 DEF StageFails, Renormalize
  <2>3. CASE SaveKey
    BY <2>3 DEF SaveKey
  <2>4. ASSUME NEW r \in Recipients, ActivateEnvelope(r)
        PROVE  CipherInv'
    BY <2>4 DEF ActivateEnvelope
  <2>5. CASE CreateBackup \/ CreateJournal \/ SyncJournal \/ WrapEnvelopes
    BY <2>5 DEF CreateBackup, CreateJournal, SyncJournal, WrapEnvelopes
  <2>6. CASE BeginRekey \/ WrapFails \/ WritePub \/ FinishRekey
    BY <2>6 DEF BeginRekey, WrapFails, WritePub, FinishRekey
  <2>7. QED
    BY <1>4, <2>1, <2>2, <2>3, <2>4, <2>5, <2>6 DEF Rekey
<1>5. CASE OtherCommand
  <2>0. StatusAnswers
    BY DEF StatusAnswers, vars
  <2>1. CASE Lock
    <3>1. CASE Dirty # {}
      <4>1. UNCHANGED secretVars
        BY <2>0, <2>1, <3>1 DEF StatusAnswers, Lock
      <4>2. QED
        BY <2>1, <4>1 DEF Lock
    <3>2. CASE Dirty = {}
      BY <2>1, <3>2 DEF Lock
    <3>3. QED
      BY <3>1, <3>2
  <2>2. ASSUME NEW m \in Mine, Unlock(m)
        PROVE  CipherInv'
    <3>1. CASE Dirty # {}
      <4>1. UNCHANGED secretVars
        BY <2>0, <2>2, <3>1 DEF StatusAnswers, Unlock
      <4>2. QED
        BY <2>2, <4>1 DEF Unlock
    <3>2. CASE Dirty = {}
      BY <2>2, <3>2 DEF Unlock
    <3>3. QED
      BY <3>1, <3>2
  <2>3. CASE Refuse \/ RewrapAll
    BY <2>3 DEF Refuse, RewrapAll
  <2>4. ASSUME NEW r \in Recipients, AddRecipient(r) \/ RemoveRecipient(r)
        PROVE  CipherInv'
    BY <2>4 DEF AddRecipient, RemoveRecipient
  <2>5. QED
    BY <1>5, <2>1, <2>2, <2>3, <2>4 DEF OtherCommand
<1>6. CASE Environment
  <2>1. CASE Crash
    BY <2>1 DEF Crash
  <2>2. CASE Pull
    BY <2>2 DEF Pull
  <2>3. CASE RefresherStart \/ RefresherSave \/ RefresherGivesUp
    BY <2>3 DEF RefresherStart, RefresherSave, RefresherGivesUp
  <2>4. CASE GitCommit
    BY <2>4 DEF GitCommit
  <2>5. ASSUME NEW f \in Files, UserEdits(f) \/ GitAdd(f)
        PROVE  CipherInv'
    BY <2>5 DEF UserEdits, GitAdd, Renormalize
  <2>6. QED
    BY <1>6, <2>1, <2>2, <2>3, <2>4, <2>5 DEF Environment
<1>7. CASE UNCHANGED vars
  BY <1>7 DEF vars
<1>8. QED
  BY <1>1, <1>2, <1>3, <1>4, <1>5, <1>6, <1>7 DEF Next, CommandStep


-----------------------------------------------------------------------------
(* What users do not remove constrains no other step.                       *)
LEMMA KeepingIsSpec == KeepingSpec => Spec
<1>1. [Next /\ OwnKept]_vars => [Next]_vars
  OBVIOUS
<1>2. QED
  BY <1>1, PTL DEF Spec, KeepingSpec

(* Nor does what git status tells.                                          *)
LEMMA ToldIsKeeping == ToldSpec => KeepingSpec
<1>1. [Next /\ OwnKept /\ StatusAnswers]_vars => [Next /\ OwnKept]_vars
  OBVIOUS
<1>2. QED
  BY <1>1, PTL DEF ToldSpec, KeepingSpec

(* BackupInv is inductive together with IInv.                               *)
LEMMA BackupStays == ASSUME Alone PROVE SteadySpec => [](IInv /\ BackupInv)
<1>1. Init => IInv /\ BackupInv
  BY InitIInv DEF Init, BackupInv, WholeInv, KeptInv
<1>2. SteadySpec => Spec
  <2>1. [Next /\ WindowClosed]_vars => [Next]_vars
    OBVIOUS
  <2>2. QED
    BY <2>1, PTL DEF Spec, SteadySpec
<1>3. IInv /\ BackupInv /\ [Next /\ WindowClosed]_vars => BackupInv'
  BY SteadyStep, AloneStep, WholeStep, KeptStep DEF BackupInv
<1>4. QED
  BY Invariance, <1>1, <1>2, <1>3, PTL DEF SteadySpec

(* And OwnInv with both.                                                    *)
LEMMA OwnStays ==
  ASSUME Alone PROVE SteadySpec /\ KeepingSpec => [](IInv /\ BackupInv /\ OwnInv)
<1>1. Init => OwnInv
  BY NamesType DEF Init, OwnInv, Names
<1>2. IInv /\ BackupInv /\ OwnInv /\ [Next /\ OwnKept]_vars => OwnInv'
  BY OwnStep
<1>3. QED
  BY BackupStays, <1>1, <1>2, PTL DEF SteadySpec, KeepingSpec

(* While no other process replaces a key and nothing but envelopes is in    *)
(* keys/, a rollback deletes no file that was there when the rotation       *)
(* began: kills may come anywhere but while a rollback deletes its backup.  *)
THEOREM RollbackDeletesNothing ==
  ASSUME Alone, Foreign = {} PROVE SteadySpec => RollbackKeepsFiles
<1> DEFINE Kept ==
      pc = "prune" =>
        \A n \in Names : env[n] # 0 /\ env'[n] = 0 => old.env[n] = 0
<1>1. IInv /\ BackupInv /\ [Next]_vars => [Kept]_vars
  <2> SUFFICES ASSUME IInv, BackupInv, [Next]_vars, pc = "prune",
                      NEW n \in Names, env[n] # 0, env'[n] = 0
               PROVE  old.env[n] = 0
    OBVIOUS
  <2>1. n \in Recipients
    BY DEF Names
  <2>2. pending /\ ~Activated /\ saved # {}
    BY BoundsType DEF IInv, TypeOK, PhaseInv, OrderInv, RestoreInv, Activated,
       Restoring, Gens, Metadata, BackupUsable
  <2>3. CASE PruneFile(n)
    BY <2>1, <2>2, <2>3 DEF PruneFile, IInv, RestoreInv, BackupInv, WholeInv
  <2>4. CASE ~PruneFile(n)
    <3>1. ASSUME NEW k \in Names, PruneFile(k)
          PROVE  FALSE
      BY <2>4, <3>1 DEF PruneFile, IInv, TypeOK
    <3>2. env' = env
      <4>1. ~Pull
        BY DEF Pull
      <4>2. QED
        BY <3>1, <4>1 DEF Next, CommandStep, Start, Recovery, NothingToRecover,
           RecoverCompleted, RecoverRefuses, RestorePub, RestoreEnvelope,
           StartPruning, FinishPruning, RestoreKey, DropJournal, Purge,
           Purging, FinishPurge, PurgeFails, PurgePart, Rekey, BeginRekey,
           CreateBackup, CreateJournal, SyncJournal, WrapEnvelopes, WrapFails,
           ActivateEnvelope, WritePub, SaveKey, StageSecrets, StageFails,
           FinishRekey, OtherCommand, Refuse, Lock, RewrapAll, Unlock,
           AddRecipient, RemoveRecipient, Environment, Crash, GitCommit,
           RefresherStart, RefresherSave, RefresherGivesUp, UserEdits, GitAdd,
           vars
    <3>3. QED
      BY <3>2
  <2>5. QED
    BY <2>3, <2>4
<1>2. [Next /\ WindowClosed]_vars => [Next]_vars
  OBVIOUS
<1>3. QED
  BY BackupStays, <1>1, <1>2, PTL DEF SteadySpec, RollbackKeepsFiles

(* However often rotations and rollbacks are killed, except in that window, *)
(* the key in force stays within reach of a user who keeps one of his own   *)
(* envelopes, whichever others he removes.                                  *)
THEOREM KeyStaysInReach ==
  ASSUME Alone PROVE SteadySpec /\ KeepingSpec => []KeyIsNeverLost
<1>1. IInv /\ BackupInv /\ OwnInv => KeyIsNeverLost
  <2> SUFFICES ASSUME IInv, BackupInv, OwnInv PROVE KeyIsNeverLost
    OBVIOUS
  <2>1. PICK m \in Mine : env[m] # 0
    BY DEF OwnInv
  <2>2. m \in Recipients
    BY NamesType
  <2>3. CASE ~pending
    BY <2>1, <2>2, <2>3 DEF IInv, ConsistencyInv, Uniform, Current, BackupInv,
       KeyIsNeverLost, InForce
  <2>4. CASE pending /\ Activated
    BY <2>4 DEF Activated, KeyIsNeverLost, InForce
  <2>5. CASE pending /\ ~Activated /\ "pub" \in saved
    BY <2>5 DEF BackupInv, KeptInv, KeyIsNeverLost, InForce
  <2>6. CASE pending /\ ~Activated /\ "pub" \notin saved
    <3>1. pub = old.pub
      BY <2>6 DEF IInv, RestoreInv, BackupInv, WholeInv
    <3>2. QED
      BY <2>6, <3>1 DEF BackupInv, KeptInv, KeyIsNeverLost, InForce
  <2>7. QED
    BY <2>3, <2>4, <2>5, <2>6
<1>2. QED
  BY OwnStays, <1>1, PTL

-----------------------------------------------------------------------------
(* One kill or failing step leaves a rotation to roll back, and none is     *)
(* left for the rollback: what was proved of SteadySpec holds of Spec.      *)
THEOREM OneKillIsSteady == ASSUME OneKill PROVE Spec => SteadySpec
<1>1. Init => KillInv
  BY BoundsType DEF Init, KillInv
<1>2. IInv /\ KillInv /\ [Next]_vars => KillInv'
  BY KillStep
<1>3. IInv /\ KillInv /\ [Next]_vars => [Next /\ WindowClosed]_vars
  BY BoundsType DEF OneKill, IInv, TypeOK, CountersOK, PhaseInv, KillInv,
     Broken, Rotating, Untouched, Replacing, Replaced, WindowClosed, Crash,
     PurgeFails
<1>4. QED
  BY Invariance, <1>1, <1>2, <1>3, PTL DEF Spec, SteadySpec

(* What one kill leaves in the ring, in the worktree and in the index.      *)
THEOREM OneKillInvariant ==
  ASSUME OneKill, Alone, Careful PROVE ToldSpec => []OneKillInv
<1>1. Init => SecretInv /\ KillInv
  BY BoundsType DEF Init, SecretInv, CommittedInv, CipherInv, KillInv
<1>2. IInv /\ KillInv /\ [Next]_vars => KillInv'
  BY KillStep
<1>3. IInv /\ OneKillInv /\ [Next /\ OwnKept /\ StatusAnswers]_vars => SecretInv'
  BY CommittedStep, CipherStep DEF SecretInv, OneKillInv
<1>4. OneKillInv <=> BackupInv /\ OwnInv /\ KillInv /\ SecretInv
  BY DEF OneKillInv
<1>5. QED
  BY OneKillIsSteady, ToldIsKeeping, KeepingIsSpec, OwnStays, <1>1, <1>2, <1>3,
     <1>4, PTL DEF Spec, ToldSpec

(* With at most one kill or failing step, a user who keeps an envelope, does*)
(* without --force, keeps the hooks, commits secrets with their metadata    *)
(* and is told of dirty secrets before a lock or unlock can open every      *)
(* secret that is left as ciphertext in the worktree, and every index entry *)
(* he has committed.                                                        *)
THEOREM CiphertextStaysReadable ==
  ASSUME OneKill, Alone, Careful PROVE ToldSpec => []SecretsStayReadable
<1> DEFINE Readable(f) == \/ index[f] \in Candidates \cup {env[m] : m \in Mine}
                          \/ "key" \in saved /\ index[f] = old.key
<1>1. IInv /\ OneKillInv => SecretsStayReadable
  <2> SUFFICES ASSUME IInv, BackupInv, OwnInv, SecretInv,
                      NEW f \in Files, disk[f] = "cipher" \/ f \notin staged
               PROVE  Readable(f)
    BY DEF SecretsStayReadable, OneKillInv
  <2>0. f \notin staged
    BY DEF SecretInv, CipherInv
  <2>1. CASE index[f] \in history
    BY <2>1 DEF SecretInv, CipherInv, Candidates
  <2>2. CASE index[f] \notin history /\ index[f] # Anchor
    <3>1. pc = "stage" /\ index[f] = old.pub
      BY <2>0, <2>2 DEF SecretInv, CommittedInv
    <3>2. "key" \in saved /\ old.key = old.pub
      BY <3>1 DEF IInv, PhaseInv, ConsistencyInv, BackupInv, Replaced
    <3>3. QED
      BY <3>1, <3>2
  <2>3. CASE index[f] = Anchor /\ pending
    <3>1. key # 0 /\ key = Anchor
      BY <2>3, BoundsType DEF Anchor, IInv, TypeOK, ConsistencyInv, OrderInv, BackupInv,
                  KeptInv, Activated, Gens, Metadata
    <3>2. QED
      BY <2>3, <3>1 DEF Candidates
  <2>4. CASE index[f] = Anchor /\ ~pending
    <3>1. PICK m \in Mine : env[m] # 0
      BY DEF OwnInv
    <3>2. env[m] = pub
      BY <2>4, <3>1, NamesType DEF IInv, ConsistencyInv, Uniform, Current, BackupInv
    <3>3. QED
      BY <2>4, <3>2 DEF Anchor
  <2>5. QED
    BY <2>1, <2>2, <2>3, <2>4
<1>2. QED
  BY Invariance, OneKillInvariant, ToldIsKeeping, KeepingIsSpec, <1>1, PTL
=============================================================================
