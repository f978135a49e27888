----------------------- MODULE RekeyTransaction_proofs -----------------------
(***************************************************************************)
(* Proofs about RekeyTransaction for any recipients, files, commands and   *)
(* bounds.                                                                 *)
(***************************************************************************)
EXTENDS RekeyInvariant, TLAPS

USE DEF metaVars, logVars, secretVars, gitVars, counters, Unnoticed

-----------------------------------------------------------------------------
(* The counters stay natural numbers.                                       *)
LEMMA CountersStep == ASSUME IInv, [Next]_vars PROVE CountersOK'
<1> USE DEF IInv, TypeOK, CountersOK
<1>1. ASSUME NEW op \in Ops, NEW force \in Forces, Start(op, force)
      PROVE  CountersOK'
  BY <1>1 DEF Start
<1>2. CASE Recovery
  BY <1>2 DEF Recovery, NothingToRecover, RecoverCompleted, RecoverRefuses,
              RestorePub, RestoreEnvelope, StartPruning, PruneFile,
              FinishPruning, RestoreKey, DropJournal
<1>3. CASE Purge
  BY <1>3 DEF Purge, FinishPurge, PurgeFails, PurgePart
<1>4. CASE Rekey
  <2>1. CASE StageSecrets \/ StageFails \/ WrapFails
    BY <2>1 DEF StageSecrets, StageFails, WrapFails
  <2>2. CASE ~(StageSecrets \/ StageFails \/ WrapFails)
    BY <1>4, <2>2 DEF Rekey, BeginRekey, CreateBackup, CreateJournal, SyncJournal,
                WrapEnvelopes, ActivateEnvelope, WritePub, SaveKey, FinishRekey
  <2>3. QED
    BY <2>1, <2>2
<1>5. CASE OtherCommand
  <2>1. ASSUME NEW m \in Mine, Unlock(m)
        PROVE  CountersOK'
    BY <2>1 DEF Unlock
  <2>2. QED
    BY <1>5, <2>1 DEF OtherCommand, Refuse, Lock, RewrapAll, AddRecipient,
                RemoveRecipient
<1>6. CASE Environment
  <2>1. CASE Crash
    BY <2>1 DEF Crash
  <2>2. CASE Pull
    BY <2>2 DEF Pull
  <2>3. CASE RefresherStart \/ RefresherSave \/ RefresherGivesUp
    BY <2>3 DEF RefresherStart, RefresherSave, RefresherGivesUp
  <2>4. CASE GitCommit
    BY <2>4 DEF GitCommit
  <2>5. ASSUME NEW f \in Files, UserEdits(f) \/ GitAdd(f)
        PROVE  CountersOK'
    BY <2>5 DEF UserEdits, GitAdd, Renormalize
  <2>6. QED
    BY <1>6, <2>1, <2>2, <2>3, <2>4, <2>5 DEF Environment
<1>7. CASE UNCHANGED vars
  BY <1>7 DEF vars
<1>8. QED
  BY <1>1, <1>2, <1>3, <1>4, <1>5, <1>6, <1>7 DEF Next, CommandStep

(* Every action keeps the variables in their types; that a new generation is *)
(* within the bound needs OrderInv.                                          *)
LEMMA TypeStep == ASSUME IInv, [Next]_vars PROVE TypeOK'
<1> USE DEF IInv, TypeOK, Return, Content, Commands, PcValues, Purging, Gens,
            Metadata, Names
<1>0. CountersOK'
  BY CountersStep
<1>1. ASSUME NEW op \in Ops, NEW force \in Forces, Start(op, force)
      PROVE  TypeOK'
  BY <1>0, <1>1, OpsType DEF Start
<1>2. CASE Recovery
  <2>1. CASE NothingToRecover
    BY <1>0, <2>1 DEF NothingToRecover
  <2>2. CASE RecoverCompleted
    BY <1>0, <2>2 DEF RecoverCompleted
  <2>3. CASE RecoverRefuses
    BY <1>0, <2>3 DEF RecoverRefuses
  <2>4. CASE RestorePub
    BY <1>0, <2>4 DEF RestorePub
  <2>5. ASSUME NEW n \in Names, RestoreEnvelope(n)
        PROVE  TypeOK'
    BY <1>0, <2>5 DEF RestoreEnvelope
  <2>6. CASE StartPruning
    BY <1>0, <2>6 DEF StartPruning
  <2>7. ASSUME NEW n \in Names, PruneFile(n)
        PROVE  TypeOK'
    BY <1>0, <2>7, BoundsType DEF PruneFile
  <2>8. CASE FinishPruning
    BY <1>0, <2>8 DEF FinishPruning
  <2>9. CASE RestoreKey
    BY <1>0, <2>9 DEF RestoreKey
  <2>10. CASE DropJournal
    BY <1>0, <2>10 DEF DropJournal
  <2>11. QED
    BY <1>2, <2>1, <2>2, <2>3, <2>4, <2>5, <2>6, <2>7, <2>8, <2>9, <2>10 DEF
       Recovery
<1>3. CASE Purge
  <2>1. CASE FinishPurge
    BY <1>0, <2>1 DEF FinishPurge
  <2>2. CASE PurgeFails
    BY <1>0, <2>2 DEF PurgeFails
  <2>3. ASSUME NEW p \in {"pub", "keys", "key"} \cup Recipients, PurgePart(p)
        PROVE  TypeOK'
    BY <1>0, <2>3 DEF PurgePart
  <2>4. QED
    BY <1>3, <2>1, <2>2, <2>3 DEF Purge
<1>4. CASE Rekey
  <2>1. CASE BeginRekey
    BY <1>0, <2>1 DEF BeginRekey
  <2>2. CASE CreateBackup
    BY <1>0, <2>2 DEF CreateBackup, Current, WholeBackup, Enrolled
  <2>3. CASE CreateJournal
    BY <1>0, <2>3, BoundsType DEF CreateJournal, OrderInv
  <2>4. CASE SyncJournal
    BY <1>0, <2>4 DEF SyncJournal
  <2>5. CASE WrapEnvelopes
    BY <1>0, <2>5 DEF WrapEnvelopes, Enrolled
  <2>6. CASE WrapFails
    BY <1>0, <2>6 DEF WrapFails
  <2>7. ASSUME NEW r \in Recipients, ActivateEnvelope(r)
        PROVE  TypeOK'
    BY <1>0, <2>7 DEF ActivateEnvelope
  <2>8. CASE WritePub
    BY <1>0, <2>8 DEF WritePub
  <2>9. CASE SaveKey
    BY <1>0, <2>9 DEF SaveKey
  <2>10. CASE StageSecrets
    BY <1>0, <2>10 DEF StageSecrets, Renormalize, CleanedUnder
  <2>11. CASE StageFails
    BY <1>0, <2>11 DEF StageFails, Renormalize, CleanedUnder
  <2>12. CASE FinishRekey
    BY <1>0, <2>12 DEF FinishRekey
  <2>13. QED
    BY <1>4, <2>1, <2>2, <2>3, <2>4, <2>5, <2>6, <2>7, <2>8, <2>9, <2>10,
       <2>11, <2>12 DEF Rekey
<1>5. CASE OtherCommand
  <2>1. CASE Refuse
    BY <1>0, <2>1 DEF Refuse
  <2>2. CASE Lock
    BY <1>0, <2>2, BoundsType DEF Lock
  <2>3. CASE RewrapAll
    BY <1>0, <2>3 DEF RewrapAll
  <2>4. ASSUME NEW m \in Mine, Unlock(m)
        PROVE  TypeOK'
    BY <1>0, <2>4, NamesType DEF Unlock, Enrolled
  <2>5. ASSUME NEW r \in Recipients, AddRecipient(r)
        PROVE  TypeOK'
    BY <1>0, <2>5 DEF AddRecipient
  <2>6. ASSUME NEW r \in Recipients, RemoveRecipient(r)
        PROVE  TypeOK'
    BY <1>0, <2>6, BoundsType DEF RemoveRecipient
  <2>7. QED
    BY <1>5, <2>1, <2>2, <2>3, <2>4, <2>5, <2>6 DEF OtherCommand
<1>6. CASE Environment
  <2>1. CASE Crash
    <3>1. saved' \subseteq {"pub", "keys", "key"} \cup Recipients
      BY <2>1 DEF Crash, WholeBackup, Enrolled
    <3>2. old' \in Metadata
      BY <2>1 DEF Crash, Current
    <3>3. pc' \in PcValues /\ todo' \subseteq Names
      BY <2>1 DEF Crash
    <3>4. QED
      BY <1>0, <2>1, <3>1, <3>2, <3>3 DEF Crash
  <2>2. CASE GitCommit
    <3>0. {env[m] : m \in Mine} \subseteq Gens
      BY NamesType
    <3>1. history' \subseteq Gens
      BY <2>2, <3>0 DEF GitCommit
    <3>2. head' \in [pub : Gens, env : [Names -> Gens]]
      BY <2>2 DEF GitCommit
    <3>3. staged' \subseteq Files
      BY <2>2 DEF GitCommit
    <3>4. QED
      BY <1>0, <2>2, <3>1, <3>2, <3>3 DEF GitCommit
  <2>3. CASE Pull
    <3>1. newest' \in Gens
      BY <2>3, BoundsType DEF Pull
    <3>2. pub' \in Gens /\ env' \in [Names -> Gens] /\ key' \in Gens
      BY <2>3, <3>1 DEF Pull
    <3>3. disk' \in [Files -> Content] /\ index' \in [Files -> Gens]
      BY <2>3, <3>1 DEF Pull
    <3>0. {env'[m] : m \in Mine} \subseteq Gens
      BY <3>2, NamesType
    <3>4. history' \subseteq Gens
      BY <2>3, <3>0 DEF Pull
    <3>5. head' \in [pub : Gens, env : [Names -> Gens]]
      BY <2>3, <3>2 DEF Pull
    <3>6. QED
      BY <1>0, <2>3, <3>1, <3>2, <3>3, <3>4, <3>5 DEF Pull
  <2>4. CASE RefresherStart
    BY <1>0, <2>4, NamesType DEF RefresherStart
  <2>5. CASE RefresherSave
    BY <1>0, <2>5, BoundsType DEF RefresherSave
  <2>6. CASE RefresherGivesUp
    BY <1>0, <2>6, BoundsType DEF RefresherGivesUp
  <2>7. ASSUME NEW f \in Files, UserEdits(f)
        PROVE  TypeOK'
    BY <1>0, <2>7 DEF UserEdits
  <2>8. ASSUME NEW f \in Files, GitAdd(f)
        PROVE  TypeOK'
    BY <1>0, <2>8 DEF GitAdd, Renormalize, CleanedUnder
  <2>9. QED
    BY <1>6, <2>1, <2>2, <2>3, <2>4, <2>5, <2>6, <2>7, <2>8 DEF Environment
<1>7. CASE UNCHANGED vars
  BY <1>0, <1>7 DEF vars
<1>8. QED
  BY <1>1, <1>2, <1>3, <1>4, <1>5, <1>6, <1>7 DEF Next, CommandStep

(* The journal is there while rekey or its rollback works, the backup too.   *)
LEMMA PhaseInvStep == ASSUME IInv, [Next]_vars PROVE PhaseInv'
<1> USE DEF IInv, Return, PhaseInv, Untouched, Replacing, Replaced, Restoring,
            BackupUsable, WholeBackup, Purging
<1>1. ASSUME NEW op \in Ops, NEW force \in Forces, Start(op, force)
      PROVE  PhaseInv'
  BY <1>1 DEF Start
<1>2. CASE Recovery
  BY <1>2 DEF Recovery, NothingToRecover, RecoverCompleted, RecoverRefuses,
              RestorePub, RestoreEnvelope, StartPruning, PruneFile,
              FinishPruning, RestoreKey, DropJournal
<1>3. CASE Purge
  BY <1>3 DEF Purge, FinishPurge, PurgeFails, PurgePart
<1>4. CASE Rekey
  BY <1>4 DEF Rekey, BeginRekey, CreateBackup, CreateJournal, SyncJournal,
              WrapEnvelopes, WrapFails, ActivateEnvelope, WritePub, SaveKey,
              StageSecrets, StageFails, FinishRekey
<1>5. CASE OtherCommand
  BY <1>5 DEF OtherCommand, Refuse, Lock, RewrapAll, Unlock, AddRecipient,
              RemoveRecipient
<1>6. CASE Environment
  <2>1. CASE Crash
    BY <2>1 DEF Crash
  <2>2. CASE Pull
    BY <2>2 DEF Pull
  <2>3. CASE RefresherStart \/ RefresherSave \/ RefresherGivesUp
    BY <2>3 DEF RefresherStart, RefresherSave, RefresherGivesUp
  <2>4. CASE GitCommit
    BY <2>4 DEF GitCommit
  <2>5. ASSUME NEW f \in Files, UserEdits(f) \/ GitAdd(f)
        PROVE  PhaseInv'
    BY <2>5 DEF UserEdits, GitAdd, Renormalize
  <2>6. QED
    BY <1>6, <2>1, <2>2, <2>3, <2>4, <2>5 DEF Environment
<1>7. CASE UNCHANGED vars
  BY <1>7 DEF vars
<1>8. QED
  BY <1>1, <1>2, <1>3, <1>4, <1>5, <1>6, <1>7 DEF Next, CommandStep

(* A rotation creates a generation newer than all others.                    *)
LEMMA OrderInvStep == ASSUME IInv, [Next]_vars PROVE OrderInv'
<1> USE DEF IInv, TypeOK, Return, OrderInv, PhaseInv, ReplaceInv, Untouched,
            Replacing, Replaced, Restoring, Gens, Metadata, Names, Current,
            Purging
<1>1. ASSUME NEW op \in Ops, NEW force \in Forces, Start(op, force)
      PROVE  OrderInv'
  BY <1>1 DEF Start
<1>2. CASE Recovery
  BY <1>2 DEF Recovery, NothingToRecover, RecoverCompleted, RecoverRefuses,
              RestorePub, RestoreEnvelope, StartPruning, PruneFile,
              FinishPruning, RestoreKey, DropJournal
<1>3. CASE Purge
  BY <1>3 DEF Purge, FinishPurge, PurgeFails, PurgePart
<1>4. CASE Rekey
  BY <1>4 DEF Rekey, BeginRekey, CreateBackup, CreateJournal, SyncJournal,
              WrapEnvelopes, WrapFails, ActivateEnvelope, WritePub, SaveKey,
              StageSecrets, StageFails, FinishRekey
<1>5. CASE OtherCommand
  BY <1>5 DEF OtherCommand, Refuse, Lock, RewrapAll, Unlock, AddRecipient,
              RemoveRecipient
<1>6. CASE Environment
  <2>1. CASE Crash
    BY <2>1 DEF Crash
  <2>2. CASE Pull
    BY <2>2 DEF Pull
  <2>3. CASE RefresherStart \/ RefresherSave \/ RefresherGivesUp
    BY <2>3 DEF RefresherStart, RefresherSave, RefresherGivesUp
  <2>4. CASE GitCommit
    BY <2>4 DEF GitCommit
  <2>5. ASSUME NEW f \in Files, UserEdits(f) \/ GitAdd(f)
        PROVE  OrderInv'
    BY <2>5 DEF UserEdits, GitAdd, Renormalize
  <2>6. QED
    BY <1>6, <2>1, <2>2, <2>3, <2>4, <2>5 DEF Environment
<1>7. CASE UNCHANGED vars
  BY <1>7 DEF vars
<1>8. QED
  BY <1>1, <1>2, <1>3, <1>4, <1>5, <1>6, <1>7 DEF Next, CommandStep

(* rekey replaces envelopes, then repo.pub, then repo.key.                   *)
LEMMA ReplaceInvStep == ASSUME IInv, [Next]_vars PROVE ReplaceInv'
<1> USE DEF IInv, TypeOK, Return, OrderInv, PhaseInv, ReplaceInv, Untouched,
            Replacing, Replaced, Restoring, Gens, Metadata, Names, Current,
            Purging, Activated, Enrolled, WholeBackup
<1>1. ASSUME NEW op \in Ops, NEW force \in Forces, Start(op, force)
      PROVE  ReplaceInv'
  BY <1>1 DEF Start
<1>2. CASE Recovery
  BY <1>2 DEF Recovery, NothingToRecover, RecoverCompleted, RecoverRefuses,
              RestorePub, RestoreEnvelope, StartPruning, PruneFile,
              FinishPruning, RestoreKey, DropJournal
<1>3. CASE Purge
  BY <1>3 DEF Purge, FinishPurge, PurgeFails, PurgePart
<1>4. CASE Rekey
  BY <1>4 DEF Rekey, BeginRekey, CreateBackup, CreateJournal, SyncJournal,
              WrapEnvelopes, WrapFails, ActivateEnvelope, WritePub, SaveKey,
              StageSecrets, StageFails, FinishRekey
<1>5. CASE OtherCommand
  BY <1>5 DEF OtherCommand, Refuse, Lock, RewrapAll, Unlock, AddRecipient,
              RemoveRecipient
<1>6. CASE Environment
  BY <1>6 DEF Environment, Crash, GitCommit, Pull, RefresherStart,
              RefresherSave, RefresherGivesUp, UserEdits, GitAdd
<1>7. CASE UNCHANGED vars
  BY <1>7 DEF vars
<1>8. QED
  BY <1>1, <1>2, <1>3, <1>4, <1>5, <1>6, <1>7 DEF Next, CommandStep

(* The rollback puts back repo.pub, then the envelopes, and deletes others.  *)
LEMMA RestoreInvStep == ASSUME IInv, [Next]_vars PROVE RestoreInv'
<1> USE DEF IInv, TypeOK, Return, PhaseInv, RestoreInv, Restoring, Metadata,
            Names, Purging, BackupUsable
<1>1. ASSUME NEW op \in Ops, NEW force \in Forces, Start(op, force)
      PROVE  RestoreInv'
  BY <1>1 DEF Start
<1>2. CASE Recovery
  BY <1>2 DEF Recovery, NothingToRecover, RecoverCompleted, RecoverRefuses,
              RestorePub, RestoreEnvelope, StartPruning, PruneFile,
              FinishPruning, RestoreKey, DropJournal
<1>3. CASE Purge
  BY <1>3 DEF Purge, FinishPurge, PurgeFails, PurgePart
<1>4. CASE Rekey
  BY <1>4 DEF Rekey, BeginRekey, CreateBackup, CreateJournal, SyncJournal,
              WrapEnvelopes, WrapFails, ActivateEnvelope, WritePub, SaveKey,
              StageSecrets, StageFails, FinishRekey
<1>5. CASE OtherCommand
  BY <1>5 DEF OtherCommand, Refuse, Lock, RewrapAll, Unlock, AddRecipient,
              RemoveRecipient
<1>6. CASE Environment
  BY <1>6 DEF Environment, Crash, GitCommit, Pull, RefresherStart,
              RefresherSave, RefresherGivesUp, UserEdits, GitAdd
<1>7. CASE UNCHANGED vars
  BY <1>7 DEF vars
<1>8. QED
  BY <1>1, <1>2, <1>3, <1>4, <1>5, <1>6, <1>7 DEF Next, CommandStep

(* Metadata are of one generation outside a rotation, of two within.         *)
LEMMA ConsistencyInvStep == ASSUME IInv, [Next]_vars PROVE ConsistencyInv'
<1> USE DEF IInv, TypeOK, Return, OrderInv, PhaseInv, ReplaceInv, RestoreInv,
            ConsistencyInv, Uniform, Untouched, Replacing, Replaced, Restoring,
            Gens, Metadata, Names, Current, Purging, Activated, Enrolled,
            BackupUsable, CountersOK
<1>1. ASSUME NEW op \in Ops, NEW force \in Forces, Start(op, force)
      PROVE  ConsistencyInv'
  BY <1>1 DEF Start
<1>2. CASE Recovery
  BY <1>2 DEF Recovery, NothingToRecover, RecoverCompleted, RecoverRefuses,
              RestorePub, RestoreEnvelope, StartPruning, PruneFile,
              FinishPruning, RestoreKey, DropJournal
<1>3. CASE Purge
  BY <1>3 DEF Purge, FinishPurge, PurgeFails, PurgePart
<1>4. CASE Rekey
  BY <1>4 DEF Rekey, BeginRekey, CreateBackup, CreateJournal, SyncJournal,
              WrapEnvelopes, WrapFails, ActivateEnvelope, WritePub, SaveKey,
              StageSecrets, StageFails, FinishRekey
<1>5. CASE OtherCommand
  BY <1>5 DEF OtherCommand, Refuse, Lock, RewrapAll, Unlock, AddRecipient,
              RemoveRecipient
<1>6. CASE Environment
  <2>1. CASE Crash
    BY <2>1 DEF Crash
  <2>2. CASE Pull
    BY <2>2 DEF Pull
  <2>3. CASE RefresherStart \/ RefresherSave \/ RefresherGivesUp
    BY <2>3 DEF RefresherStart, RefresherSave, RefresherGivesUp
  <2>4. CASE GitCommit
    BY <2>4 DEF GitCommit
  <2>5. ASSUME NEW f \in Files, UserEdits(f) \/ GitAdd(f)
        PROVE  ConsistencyInv'
    BY <2>5 DEF UserEdits, GitAdd, Renormalize
  <2>6. QED
    BY <1>6, <2>1, <2>2, <2>3, <2>4, <2>5 DEF Environment
<1>7. CASE UNCHANGED vars
  BY <1>7 DEF vars
<1>8. QED
  BY <1>1, <1>2, <1>3, <1>4, <1>5, <1>6, <1>7 DEF Next, CommandStep

(* Between staging and the end of rekey, only edits and git add intervene.   *)
LEMMA StagedInvStep == ASSUME IInv, [Next]_vars PROVE StagedInv'
<1> USE DEF IInv, TypeOK, Return, ReplaceInv, StagedInv, Replaced, Purging,
            Activated, CleanedUnder, Renormalize
<1>1. ASSUME NEW op \in Ops, NEW force \in Forces, Start(op, force)
      PROVE  StagedInv'
  BY <1>1 DEF Start
<1>2. CASE Recovery
  BY <1>2 DEF Recovery, NothingToRecover, RecoverCompleted, RecoverRefuses,
              RestorePub, RestoreEnvelope, StartPruning, PruneFile,
              FinishPruning, RestoreKey, DropJournal
<1>3. CASE Purge
  BY <1>3 DEF Purge, FinishPurge, PurgeFails, PurgePart
<1>4. CASE Rekey
  BY <1>4 DEF Rekey, BeginRekey, CreateBackup, CreateJournal, SyncJournal,
              WrapEnvelopes, WrapFails, ActivateEnvelope, WritePub, SaveKey,
              StageSecrets, StageFails, FinishRekey
<1>5. CASE OtherCommand
  BY <1>5 DEF OtherCommand, Refuse, Lock, RewrapAll, Unlock, AddRecipient,
              RemoveRecipient
<1>6. CASE Environment
  BY <1>6 DEF Environment, Crash, GitCommit, Pull, RefresherStart,
              RefresherSave, RefresherGivesUp, UserEdits, GitAdd
<1>7. CASE UNCHANGED vars
  BY <1>7 DEF vars
<1>8. QED
  BY <1>1, <1>2, <1>3, <1>4, <1>5, <1>6, <1>7 DEF Next, CommandStep

-----------------------------------------------------------------------------
(* The initial states satisfy the invariant.                                 *)
LEMMA InitIInv == Init => IInv
<1> SUFFICES ASSUME Init PROVE IInv
  OBVIOUS
<1> USE DEF Init
<1>1. TypeOK
  <2>1. 0 \in Gens /\ 1 \in Gens
    BY BoundsType DEF Gens
  <2>2. env \in [Names -> Gens] /\ old \in Metadata
    BY <2>1 DEF Metadata
  <2>3. disk \in [Files -> Content] /\ index \in [Files -> Gens]
    BY <2>1 DEF Content
  <2>4. pub \in Gens /\ key \in Gens
    BY <2>1
  <2>5. head \in [pub : Gens, env : [Names -> Gens]]
    BY <2>2, <2>4
  <2>6. pc \in PcValues /\ cmd \in Commands /\ CountersOK
    BY DEF PcValues, Commands, AllOps, CountersOK
  <2>7. QED
    BY <2>1, <2>2, <2>3, <2>4, <2>5, <2>6 DEF TypeOK
<1>2. PhaseInv /\ ReplaceInv /\ RestoreInv /\ StagedInv
  BY DEF PhaseInv, ReplaceInv, RestoreInv, StagedInv, Untouched, Replacing,
         Replaced, Restoring
<1>3. OrderInv
  BY DEF OrderInv, Replacing
<1>4. ConsistencyInv
  BY DEF ConsistencyInv, Uniform, Current, Untouched, Names
<1>5. QED
  BY <1>1, <1>2, <1>3, <1>4 DEF IInv

(* IInv is inductive, so it holds in every reachable state.                  *)
THEOREM Invariance == Spec => []IInv
<1>1. IInv /\ [Next]_vars => IInv'
  BY TypeStep, PhaseInvStep, OrderInvStep, ReplaceInvStep, RestoreInvStep,
     ConsistencyInvStep, StagedInvStep DEF IInv
<1>2. QED
  BY InitIInv, <1>1, PTL DEF Spec

(* The variables keep their types.                                           *)
THEOREM TypeCorrect == Spec => []TypeOK
<1>1. IInv => TypeOK
  BY DEF IInv
<1>2. QED
  BY Invariance, <1>1, PTL

(* After startup recovery repo.pub, repo.key and the envelopes are of one    *)
(* generation, however often rekey and its recovery were killed.             *)
THEOREM StartsConsistent == Spec => []BodyConsistent
<1>1. IInv => BodyConsistent
  BY DEF IInv, PhaseInv, ConsistencyInv, BodyConsistent, Uniform, Current
<1>2. QED
  BY Invariance, <1>1, PTL

(* rekey and its rollback replace no key, envelope or repo.pub that the      *)
(* journalled backup does not cover.                                         *)
THEOREM BackupFirst == Spec => WriteAhead
<1> DEFINE Safe ==
      pc \notin {"idle", "run"} =>
        /\ pub' # pub => pending /\ "pub" \in saved /\ old.pub \in {pub, pub'}
        /\ key' # key => pending /\ "key" \in saved /\ old.key \in {key, key'}
        /\ \A r \in Recipients :
             env'[r] # env[r] =>
               /\ pending
               /\ \/ r \in saved /\ old.env[r] \in {env[r], env'[r]}
                  \/ pc = "prune" /\ env'[r] = 0
<1>1. IInv /\ [Next]_vars => [Safe]_vars
  <2> SUFFICES ASSUME IInv, [Next]_vars PROVE Safe
    OBVIOUS
  <2> USE DEF IInv, TypeOK, PhaseInv, ReplaceInv, RestoreInv, Metadata, Names,
              Untouched, Replacing, Restoring, BackupUsable
  <2>1. ASSUME NEW op \in Ops, NEW force \in Forces, Start(op, force)
        PROVE  Safe
    BY <2>1 DEF Start
  <2>2. CASE Recovery
    BY <2>2 DEF Recovery, NothingToRecover, RecoverCompleted, RecoverRefuses,
                RestorePub, RestoreEnvelope, StartPruning, PruneFile,
                FinishPruning, RestoreKey, DropJournal
  <2>3. CASE Purge
    BY <2>3 DEF Purge, FinishPurge, PurgeFails, PurgePart
  <2>4. CASE Rekey
    BY <2>4 DEF Rekey, BeginRekey, CreateBackup, CreateJournal, SyncJournal,
                WrapEnvelopes, WrapFails, ActivateEnvelope, WritePub, SaveKey,
                StageSecrets, StageFails, FinishRekey
  <2>5. CASE OtherCommand
    BY <2>5 DEF OtherCommand, Refuse, Lock, RewrapAll, Unlock, AddRecipient,
                RemoveRecipient
  <2>6. CASE Environment
    BY <2>6 DEF Environment, Crash, GitCommit, Pull, RefresherStart,
                RefresherSave, RefresherGivesUp, UserEdits, GitAdd
  <2>7. CASE UNCHANGED vars
    BY <2>7 DEF vars
  <2>8. QED
    BY <2>1, <2>2, <2>3, <2>4, <2>5, <2>6, <2>7 DEF Next, CommandStep
<1>2. QED
  BY Invariance, <1>1, PTL DEF Spec, WriteAhead

(* A rekey that reports success has staged every decrypted secret under the  *)
(* generation it created.                                                    *)
THEOREM SuccessReencrypts == Spec => SuccessMeansReencrypted
<1>1. IInv /\ [Next]_vars =>
        [FinishRekey =>
           \A f \in Files \ unlisted : disk[f] = "plain" => index[f] = pub]_vars
  BY DEF IInv, StagedInv, FinishRekey
<1>2. QED
  BY Invariance, <1>1, PTL DEF Spec, SuccessMeansReencrypted

(* With no other process replacing keys, the rotation with its backup, its   *)
(* rollback and kills implements one that changes generation in one step.    *)
THEOREM Refinement == ASSUME MaxOutside = 0 PROVE Spec => ImplementsAtomicRekey
<1> DEFINE Alone == outside = 0
<1>1. Init => Abstract!Init
  BY DEF Init, Abstract!Init, InForce
<1>2. Alone /\ [Next]_vars => Alone'
  <2> SUFFICES ASSUME Alone, [Next]_vars PROVE Alone'
    OBVIOUS
  <2>1. ASSUME NEW op \in Ops, NEW force \in Forces, Start(op, force)
        PROVE  Alone'
    BY <2>1 DEF Start
  <2>2. CASE Recovery
    BY <2>2 DEF Recovery, NothingToRecover, RecoverCompleted, RecoverRefuses,
                RestorePub, RestoreEnvelope, StartPruning, PruneFile,
                FinishPruning, RestoreKey, DropJournal
  <2>3. CASE Purge
    BY <2>3 DEF Purge, FinishPurge, PurgeFails, PurgePart
  <2>4. CASE Rekey
    BY <2>4 DEF Rekey, BeginRekey, CreateBackup, CreateJournal, SyncJournal,
                WrapEnvelopes, WrapFails, ActivateEnvelope, WritePub, SaveKey,
                StageSecrets, StageFails, FinishRekey
  <2>5. CASE OtherCommand
    BY <2>5 DEF OtherCommand, Refuse, Lock, RewrapAll, Unlock, AddRecipient,
                RemoveRecipient
  <2>6. CASE Environment
    <3>1. ~Pull /\ ~RefresherStart
      BY DEF Pull, RefresherStart
    <3>2. QED
      BY <2>6, <3>1 DEF Environment, Crash, GitCommit, RefresherSave,
                        RefresherGivesUp, UserEdits, GitAdd
  <2>7. CASE UNCHANGED vars
    BY <2>7 DEF vars
  <2>8. QED
    BY <2>1, <2>2, <2>3, <2>4, <2>5, <2>6, <2>7 DEF Next, CommandStep
<1>3. IInv /\ Alone /\ Alone' /\ [Next]_vars => [Abstract!Next]_<<InForce, key = InForce>>
  <2> SUFFICES ASSUME IInv, Alone, Alone', [Next]_vars
               PROVE  [Abstract!Next]_<<InForce, key = InForce>>
    OBVIOUS
  <2> USE DEF IInv, TypeOK, PhaseInv, OrderInv, ReplaceInv, RestoreInv,
              ConsistencyInv, Renormalize, Metadata, Names, Uniform, Current,
              Purging, Gens, Untouched, Replacing, Replaced, Restoring,
              BackupUsable, InForce, Activated, Enrolled, WholeBackup,
              Abstract!Next, Abstract!Rotate, Abstract!Lock, Abstract!Unlock
  <2>1. ASSUME NEW op \in Ops, NEW force \in Forces, Start(op, force)
        PROVE  [Abstract!Next]_<<InForce, key = InForce>>
    BY <2>1 DEF Start
  <2>2. CASE Recovery
    BY <2>2 DEF Recovery, NothingToRecover, RecoverCompleted, RecoverRefuses,
                RestorePub, RestoreEnvelope, StartPruning, PruneFile,
                FinishPruning, RestoreKey, DropJournal
  <2>3. CASE Purge
    BY <2>3 DEF Purge, FinishPurge, PurgeFails, PurgePart
  <2>4. CASE Rekey
    BY <2>4 DEF Rekey, BeginRekey, CreateBackup, CreateJournal, SyncJournal,
                WrapEnvelopes, WrapFails, ActivateEnvelope, WritePub, SaveKey,
                StageSecrets, StageFails, FinishRekey
  <2>5. CASE OtherCommand
    BY <2>5 DEF OtherCommand, Refuse, Lock, RewrapAll, Unlock, AddRecipient,
                RemoveRecipient
  <2>6. CASE Environment
    <3>1. ~Pull /\ ~RefresherStart
      BY DEF Pull, RefresherStart
    <3>2. QED
      BY <2>6, <3>1 DEF Environment, Crash, GitCommit, RefresherSave,
                        RefresherGivesUp, UserEdits, GitAdd
  <2>7. CASE UNCHANGED vars
    BY <2>7 DEF vars
  <2>8. QED
    BY <2>1, <2>2, <2>3, <2>4, <2>5, <2>6, <2>7 DEF Next, CommandStep
<1>4. Init => Alone
  BY DEF Init
<1>5. QED
  BY Invariance, <1>1, <1>2, <1>3, <1>4, PTL DEF Spec, ImplementsAtomicRekey,
     Abstract!Spec
=============================================================================
