----------------------- MODULE LockTransaction_proofs -----------------------
(***************************************************************************)
(* Proofs about LockTransaction for any worktrees, paths, rings, bounds.   *)
(***************************************************************************)
EXTENDS LockInvariant, TLAPS

USE DEF keyVars, journalVars, localVars, envVars, otherCounts, counters, Silence

(* Every action counts by one at most.                                       *)
LEMMA CountersStep == ASSUME CountersOK, [RacyNext]_vars PROVE CountersOK'
<1> DEFINE Counted == /\ crashes' \in {crashes, crashes + 1} /\ faults' \in {faults, faults + 1}
                      /\ edits' \in {edits, edits + 1} /\ moves' \in {moves, moves + 1}
<1>1. ASSUME NEW op \in Ops, NEW r \in Rings, NEW force \in BOOLEAN,
             Start(op, r, force)
      PROVE  Counted
  BY <1>1 DEF Start
<1>2. ASSUME Recovery
      PROVE  Counted
  BY <1>2 DEF Recovery, RecoverRingWithoutMarker, RecoverRingWithBoth,
              RecoverRingRestoringKey, DropStaleJournal, FinishRecovery
<1>3. ASSUME Replay
      PROVE  Counted
  BY <1>3 DEF Replay, SkipEntry, OverlookEntry, RemoveEntry, RestoreEntry,
              RestoreEntryFails, FinishReplay
<1>4. ASSUME Body
      PROVE  Counted
  BY <1>4 DEF Body, Refuse, LockCheck, LockWithoutKey, CreateJournal,
              SyncJournal, StageKey, UnlockSaveKey, UnlockCheck, CommitKey,
              CommitJournal, Rollback
<1>5. ASSUME Refresh
      PROVE  Counted
  BY <1>5 DEF Refresh, SkipWorktree, RefreshWorktree, RemoveFile, CheckoutFile,
              CheckoutFileFails, RefreshFails, FinishRefresh
<1>6. ASSUME Environment
      PROVE  Counted
  BY <1>6 DEF Environment, Crash, UserEdits, UserCommits, MoveWorktree,
              RefresherStart, RefresherSave, RefresherGivesUp
<1>7. ASSUME UNCHANGED vars
      PROVE  Counted
  BY <1>7 DEF vars
<1>8. ASSUME NEW w \in Worktrees, MoveWorktree(w)
      PROVE  Counted
  BY <1>8 DEF MoveWorktree
<1>9. Counted
  BY <1>1, <1>2, <1>3, <1>4, <1>5, <1>6, <1>7, <1>8 DEF RacyNext, Next, CommandStep
<1>. QED BY <1>9 DEF CountersOK

(* Every action keeps the variables in their types.                          *)
LEMMA TypeStep == ASSUME TypeOK, [RacyNext]_vars PROVE TypeOK'
<1>0. CountersOK'
  BY CountersStep DEF TypeOK
<1> USE <1>0 DEF TypeOK, Content, Commands, PcValues, Questions, Return
<1>1. ASSUME NEW op \in Ops, NEW r \in Rings, NEW force \in BOOLEAN,
             Start(op, r, force)
      PROVE  TypeOK'
  BY <1>1, OpsType DEF Start
<1>2. CASE Recovery
  <2>1. ASSUME NEW r \in Rings, RecoverRingRestoringKey(r)
        PROVE  TypeOK'
    <3>1. todo' \subseteq Files /\ silent' \subseteq Questions \X Files
      BY <2>1 DEF RecoverRingRestoringKey, Reachable
    <3>2. QED
      BY <2>1, <3>1 DEF RecoverRingRestoringKey
  <2>2. QED
    BY <1>2, <2>1 DEF Recovery, RecoverRingWithoutMarker, RecoverRingWithBoth,
                DropStaleJournal, FinishRecovery
<1>3. CASE Replay
  <2>1. ASSUME NEW f \in Files, SkipEntry(f) \/ OverlookEntry(f)
        PROVE  TypeOK'
    BY <2>1 DEF SkipEntry, OverlookEntry
  <2>2. ASSUME NEW f \in Files, RemoveEntry(f)
        PROVE  TypeOK'
    BY <2>2 DEF RemoveEntry
  <2>3. ASSUME NEW f \in Files, RestoreEntry(f)
        PROVE  TypeOK'
    BY <2>3 DEF RestoreEntry, Smudged
  <2>4. CASE RestoreEntryFails \/ FinishReplay
    BY <2>4 DEF RestoreEntryFails, FinishReplay
  <2>5. QED
    BY <1>3, <2>1, <2>2, <2>3, <2>4 DEF Replay
<1>4. CASE Body
  <2>1. CASE LockCheck
    <3>1. LockWarnings \subseteq Files
      BY DEF LockWarnings, Dirty, RingFiles
    <3>2. silent' \subseteq Questions \X Files
      BY <2>1, <3>1 DEF LockCheck
    <3>3. QED
      BY <2>1, <3>2 DEF LockCheck
  <2>2. CASE CreateJournal
    <3>1. todo' \subseteq Files /\ silent' \subseteq Questions \X Files
      BY <2>2 DEF CreateJournal, RingFiles
    <3>2. QED
      BY <2>2, <3>1 DEF CreateJournal
  <2>3. CASE UnlockCheck
    <3>1. silent' \subseteq Questions \X Files
      BY <2>3 DEF UnlockCheck, Dirty, RingFiles
    <3>2. QED
      BY <2>3, <3>1 DEF UnlockCheck
  <2>4. CASE \/ Refuse \/ LockWithoutKey \/ SyncJournal \/ StageKey
             \/ UnlockSaveKey \/ CommitKey \/ CommitJournal \/ Rollback
    BY <2>4 DEF Refuse, LockWithoutKey, SyncJournal, StageKey, UnlockSaveKey,
                CommitKey, CommitJournal, Rollback
  <2>5. QED
    BY <1>4, <2>1, <2>2, <2>3, <2>4 DEF Body
<1>5. CASE Refresh
  <2>1. ASSUME NEW w \in Worktrees, SkipWorktree(w)
        PROVE  TypeOK'
    BY <2>1 DEF SkipWorktree
  <2>2. ASSUME NEW w \in Worktrees, RefreshWorktree(w)
        PROVE  TypeOK'
    <3>1. (RingFiles(cmd.ring) \cap FilesOf(w)) \ Sparse \subseteq Files
      BY DEF RingFiles
    <3>2. todo' \subseteq Files /\ lateEdits' \subseteq Files
      BY <2>2, <3>1 DEF RefreshWorktree
    <3>3. silent' \subseteq Questions \X Files
      BY <2>2, <3>1 DEF RefreshWorktree, Dirty, RingFiles
    <3>4. QED
      BY <2>2, <3>2, <3>3 DEF RefreshWorktree
  <2>3. ASSUME NEW f \in Files, RemoveFile(f)
        PROVE  TypeOK'
    BY <2>3 DEF RemoveFile
  <2>4. ASSUME NEW f \in Files, CheckoutFile(f) \/ CheckoutFileFails(f)
        PROVE  TypeOK'
    BY <2>4 DEF CheckoutFile, CheckoutFileFails, Smudged
  <2>5. CASE RefreshFails \/ FinishRefresh
    BY <2>5 DEF RefreshFails, FinishRefresh
  <2>6. QED
    BY <1>5, <2>1, <2>2, <2>3, <2>4, <2>5 DEF Refresh
<1>6. CASE Environment
  <2>1. CASE Crash
    <3>1. disk' \in [Files -> Content]
      BY <2>1 DEF Crash
    <3>2. QED
      BY <2>1, <3>1 DEF Crash
  <2>2. ASSUME NEW f \in Files, UserEdits(f) \/ UserCommits(f)
        PROVE  TypeOK'
    BY <2>2 DEF UserEdits, UserCommits
  <2>3. ASSUME NEW w \in Worktrees, MoveWorktree(w)
        PROVE  TypeOK'
    BY <2>3 DEF MoveWorktree
  <2>4. ASSUME NEW r \in Rings,
               RefresherStart(r) \/ RefresherSave(r) \/ RefresherGivesUp(r)
        PROVE  TypeOK'
    BY <2>4 DEF RefresherStart, RefresherSave, RefresherGivesUp
  <2>5. QED
    BY <1>6, <2>1, <2>2, <2>3, <2>4 DEF Environment
<1>7. CASE UNCHANGED vars
  BY <1>7 DEF vars
<1>8. ASSUME NEW w \in Worktrees, MoveWorktree(w)
      PROVE  TypeOK'
  BY <1>8 DEF MoveWorktree
<1>9. QED
  BY <1>1, <1>2, <1>3, <1>4, <1>5, <1>6, <1>7, <1>8 DEF RacyNext, Next, CommandStep

-----------------------------------------------------------------------------
(* The parts of the inductive invariant, one lemma each: a step from a state *)
(* that satisfies all of them leads to a state that satisfies this one.      *)

(* A command keeps to its phases, and leaves nothing pending between them.   *)
LEMMA PhaseInvStep == ASSUME CoreInv, [RacyNext]_vars PROVE PhaseInv'
<1> USE DEF CoreInv, TypeOK, PhaseInv, MarkerInv, Return, Startup, Replaying,
            BeforeKey, Journaling, Refreshing
<1>1. ASSUME NEW op \in Ops, NEW r \in Rings, NEW force \in BOOLEAN,
             Start(op, r, force)
      PROVE  PhaseInv'
  BY <1>1 DEF Start
<1>2. CASE Recovery
  <2>1. ASSUME NEW r \in Rings, RecoverRingRestoringKey(r)
        PROVE  PhaseInv'
    <3>1. startup => silent' \subseteq {"recovery"} \X Files
      BY <2>1 DEF RecoverRingRestoringKey, Reachable
    <3>2. QED
      BY <2>1, <3>1 DEF RecoverRingRestoringKey
  <2>2. QED
    BY <1>2, <2>1 DEF Recovery, RecoverRingWithoutMarker, RecoverRingWithBoth,
                DropStaleJournal, FinishRecovery
<1>3. CASE Replay
  <2>1. ASSUME NEW f \in Files, SkipEntry(f)
        PROVE  PhaseInv'
    BY <2>1 DEF SkipEntry
  <2>2. ASSUME NEW f \in Files, OverlookEntry(f)
        PROVE  PhaseInv'
    BY <2>2 DEF OverlookEntry
  <2>3. ASSUME NEW f \in Files, RemoveEntry(f)
        PROVE  PhaseInv'
    BY <2>3 DEF RemoveEntry
  <2>4. ASSUME NEW f \in Files, RestoreEntry(f)
        PROVE  PhaseInv'
    BY <2>4 DEF RestoreEntry
  <2>5. CASE RestoreEntryFails \/ FinishReplay
    BY <2>5 DEF RestoreEntryFails, FinishReplay
  <2>6. QED
    BY <1>3, <2>1, <2>2, <2>3, <2>4, <2>5 DEF Replay
<1>4. CASE Body
  BY <1>4 DEF Body, Refuse, LockCheck, LockWithoutKey, CreateJournal,
              SyncJournal, StageKey, UnlockSaveKey, UnlockCheck, CommitKey,
              CommitJournal, Rollback
<1>5. CASE Refresh
  BY <1>5 DEF Refresh, SkipWorktree, RefreshWorktree, RemoveFile, CheckoutFile,
              CheckoutFileFails, RefreshFails, FinishRefresh
<1>6. CASE Environment
  BY <1>6 DEF Environment, Crash, UserEdits, UserCommits, MoveWorktree,
              RefresherStart, RefresherSave, RefresherGivesUp
<1>7. CASE UNCHANGED vars
  BY <1>7 DEF vars
<1>8. ASSUME NEW w \in Worktrees, MoveWorktree(w)
      PROVE  PhaseInv'
  BY <1>8 DEF MoveWorktree
<1>9. QED
  BY <1>1, <1>2, <1>3, <1>4, <1>5, <1>6, <1>7, <1>8 DEF RacyNext, Next, CommandStep

(* A second staged key never appears: StageKey is only reached without one.  *)
LEMMA MarkerInvStep == ASSUME CoreInv, [RacyNext]_vars PROVE MarkerInv'
<1> USE DEF CoreInv, TypeOK, MarkerInv, JournalInv, Return, Startup, Replaying,
            BeforeKey, Journaling, Refreshing, Deciding, Staged
<1>1. ASSUME NEW op \in Ops, NEW r \in Rings, NEW force \in BOOLEAN,
             Start(op, r, force)
      PROVE  MarkerInv'
  BY <1>1 DEF Start
<1>2. CASE Recovery
  BY <1>2 DEF Recovery, RecoverRingWithoutMarker, RecoverRingWithBoth,
              RecoverRingRestoringKey, DropStaleJournal, FinishRecovery
<1>3. CASE Replay
  BY <1>3 DEF Replay, SkipEntry, OverlookEntry, RemoveEntry, RestoreEntry, RestoreEntryFails,
              FinishReplay
<1>4. CASE Body
  <2>1. CASE Refuse \/ LockCheck \/ LockWithoutKey
    BY <2>1 DEF Refuse, LockCheck, LockWithoutKey
  <2>2. CASE CreateJournal \/ SyncJournal
    <3>1. /\ pc' \in Journaling /\ cmd.ring \in key /\ cmd.op = "lock" /\ locking = {}
          /\ UNCHANGED <<key, locking, cmd>>
      BY <2>2 DEF CreateJournal, SyncJournal, PhaseInv
    <3>2. QED
      BY <3>1
  <2>3. CASE StageKey \/ UnlockSaveKey \/ UnlockCheck
    BY <2>3 DEF StageKey, UnlockSaveKey, UnlockCheck
  <2>4. CASE CommitKey \/ CommitJournal \/ Rollback
    BY <2>4 DEF CommitKey, CommitJournal, Rollback
  <2>5. QED
    BY <1>4, <2>1, <2>2, <2>3, <2>4 DEF Body
<1>5. CASE Refresh
  BY <1>5 DEF Refresh, SkipWorktree, RefreshWorktree, RemoveFile, CheckoutFile,
              CheckoutFileFails, RefreshFails, FinishRefresh
<1>6. CASE Environment
  BY <1>6 DEF Environment, Crash, UserEdits, UserCommits, MoveWorktree,
              RefresherStart, RefresherSave, RefresherGivesUp
<1>7. CASE UNCHANGED vars
  BY <1>7 DEF vars
<1>8. ASSUME NEW w \in Worktrees, MoveWorktree(w)
      PROVE  MarkerInv'
  BY <1>8 DEF MoveWorktree
<1>9. QED
  BY <1>1, <1>2, <1>3, <1>4, <1>5, <1>6, <1>7, <1>8 DEF RacyNext, Next, CommandStep

(* What a lock has established when it is about to stage its key.            *)
LEMMA StagedJournal ==
  ASSUME CoreInv, StageKey
  PROVE  /\ locking = {}
         /\ jstate = "valid" /\ jentries \subseteq RingFiles(cmd.ring)
BY DEF CoreInv, MarkerInv, JournalInv, StageKey, Journaling

(* A key is staged only after the journal lists what the refresh may touch.  *)
LEMMA JournalInvStep == ASSUME CoreInv, [RacyNext]_vars PROVE JournalInv'
<1> USE DEF CoreInv, PhaseInv, TypeOK, MarkerInv, JournalInv, Return, Startup,
            Replaying, BeforeKey, Journaling, Refreshing, Deciding, Staged,
            RingFiles, Reachable
<1>1. ASSUME NEW op \in Ops, NEW r \in Rings, NEW force \in BOOLEAN,
             Start(op, r, force)
      PROVE  JournalInv'
  BY <1>1 DEF Start
<1>2. CASE Recovery
  BY <1>2 DEF Recovery, RecoverRingWithoutMarker, RecoverRingWithBoth,
              RecoverRingRestoringKey, DropStaleJournal, FinishRecovery
<1>3. CASE Replay
  BY <1>3 DEF Replay, SkipEntry, OverlookEntry, RemoveEntry, RestoreEntry, RestoreEntryFails,
              FinishReplay
<1>4. CASE Body
  <2>1. CASE StageKey
    <3>1. pc' = "refresh" /\ UNCHANGED <<cmd, attached, jstate, jentries>>
      BY <2>1 DEF StageKey
    <3>2. locking' = locking \cup {cmd.ring}
      BY <2>1 DEF StageKey
    <3>3. QED
      BY <2>1, <3>1, <3>2, StagedJournal
  <2>2. CASE \/ Refuse \/ LockCheck \/ LockWithoutKey \/ CreateJournal \/ SyncJournal
             \/ UnlockSaveKey \/ UnlockCheck \/ CommitKey \/ CommitJournal
             \/ Rollback
    BY <2>2 DEF Refuse, LockCheck, LockWithoutKey, CreateJournal, SyncJournal,
                UnlockSaveKey, UnlockCheck, CommitKey, CommitJournal, Rollback
  <2>3. QED
    BY <1>4, <2>1, <2>2 DEF Body
<1>5. CASE Refresh
  <2>1. ASSUME NEW w \in Worktrees, SkipWorktree(w) \/ RefreshWorktree(w)
        PROVE  JournalInv'
    BY <2>1 DEF SkipWorktree, RefreshWorktree
  <2>2. ASSUME NEW f \in Files, RemoveFile(f) \/ CheckoutFile(f)
        PROVE  JournalInv'
    BY <2>2 DEF RemoveFile, CheckoutFile
  <2>3. ASSUME NEW f \in Files, CheckoutFileFails(f)
        PROVE  JournalInv'
    BY <2>3 DEF CheckoutFileFails
  <2>4. CASE RefreshFails \/ FinishRefresh
    BY <2>4 DEF RefreshFails, FinishRefresh
  <2>5. QED
    BY <1>5, <2>1, <2>2, <2>3, <2>4 DEF Refresh
<1>6. CASE Environment
  BY <1>6 DEF Environment, Crash, UserEdits, UserCommits, MoveWorktree,
              RefresherStart, RefresherSave, RefresherGivesUp
<1>7. CASE UNCHANGED vars
  BY <1>7 DEF vars
<1>8. ASSUME NEW w \in Worktrees, MoveWorktree(w)
      PROVE  JournalInv'
  BY <1>8 DEF MoveWorktree
<1>9. QED
  BY <1>1, <1>2, <1>3, <1>4, <1>5, <1>6, <1>7, <1>8 DEF RacyNext, Next, CommandStep

(* Loops only take up files of the ring the command works for.               *)
LEMMA RingInvStep == ASSUME CoreInv, [RacyNext]_vars PROVE RingInv'
<1> USE DEF CoreInv, TypeOK, PhaseInv, Startup, MarkerInv, JournalInv, RingInv,
            SparseInv, Return, Replaying, BeforeKey, Journaling, Refreshing, Deciding,
            Staged, RingFiles, FilesOf, Damaged
<1>1. ASSUME NEW op \in Ops, NEW r \in Rings, NEW force \in BOOLEAN,
             Start(op, r, force)
      PROVE  RingInv'
  BY <1>1 DEF Start
<1>2. CASE Recovery
  BY <1>2 DEF Recovery, RecoverRingWithoutMarker, RecoverRingWithBoth,
              RecoverRingRestoringKey, DropStaleJournal, FinishRecovery
<1>3. CASE Replay
  <2>1. ASSUME NEW f \in Files, SkipEntry(f)
        PROVE  RingInv'
    BY <2>1 DEF SkipEntry
  <2>2. ASSUME NEW f \in Files, OverlookEntry(f)
        PROVE  RingInv'
    BY <2>2 DEF OverlookEntry
  <2>3. ASSUME NEW f \in Files, RemoveEntry(f)
        PROVE  RingInv'
    BY <2>3 DEF RemoveEntry
  <2>4. ASSUME NEW f \in Files, RestoreEntry(f)
        PROVE  RingInv'
    BY <2>4 DEF RestoreEntry
  <2>5. CASE RestoreEntryFails \/ FinishReplay
    BY <2>5 DEF RestoreEntryFails, FinishReplay
  <2>6. QED
    BY <1>3, <2>1, <2>2, <2>3, <2>4, <2>5 DEF Replay
<1>4. CASE Body
  <2>1. CASE Rollback
    <3>1. todo' \subseteq RingFiles(cmd.ring) /\ inflight' = {}
      BY <2>1 DEF Rollback
    <3>2. QED
      BY <2>1, <3>1 DEF Rollback
  <2>2. CASE LockWithoutKey \/ StageKey \/ UnlockCheck
    BY <2>2 DEF LockWithoutKey, StageKey, UnlockCheck
  <2>3. CASE \/ Refuse \/ LockCheck \/ CreateJournal \/ SyncJournal
             \/ UnlockSaveKey \/ CommitKey \/ CommitJournal
    BY <2>3 DEF Refuse, LockCheck, CreateJournal, SyncJournal, UnlockSaveKey,
                CommitKey, CommitJournal
  <2>4. QED
    BY <1>4, <2>1, <2>2, <2>3 DEF Body
<1>5. CASE Refresh
  <2>1. ASSUME NEW w \in Worktrees, SkipWorktree(w) \/ RefreshWorktree(w)
        PROVE  RingInv'
    BY <2>1 DEF SkipWorktree, RefreshWorktree
  <2>2. ASSUME NEW f \in Files, RemoveFile(f)
        PROVE  RingInv'
    BY <2>2 DEF RemoveFile
  <2>3. ASSUME NEW f \in Files, CheckoutFile(f)
        PROVE  RingInv'
    BY <2>3 DEF CheckoutFile
  <2>4. ASSUME NEW f \in Files, CheckoutFileFails(f)
        PROVE  RingInv'
    BY <2>4 DEF CheckoutFileFails
  <2>5. CASE RefreshFails \/ FinishRefresh
    BY <2>5 DEF RefreshFails, FinishRefresh
  <2>6. QED
    BY <1>5, <2>1, <2>2, <2>3, <2>4, <2>5 DEF Refresh
<1>6. CASE Environment
  BY <1>6 DEF Environment, Crash, UserEdits, UserCommits, MoveWorktree,
              RefresherStart, RefresherSave, RefresherGivesUp
<1>7. CASE UNCHANGED vars
  BY <1>7 DEF vars
<1>8. ASSUME NEW w \in Worktrees, MoveWorktree(w)
      PROVE  RingInv'
  BY <1>8 DEF MoveWorktree
<1>9. QED
  BY <1>1, <1>2, <1>3, <1>4, <1>5, <1>6, <1>7, <1>8 DEF RacyNext, Next, CommandStep

(* Loops are only entered with something to do, and left when it is done.    *)
LEMMA LoopInvStep == ASSUME CoreInv, [RacyNext]_vars PROVE LoopInv'
<1> USE DEF CoreInv, TypeOK, PhaseInv, LoopInv, Return, Startup, Replaying,
            BeforeKey, Journaling, FilesOf, RingFiles
<1>1. ASSUME NEW op \in Ops, NEW r \in Rings, NEW force \in BOOLEAN,
             Start(op, r, force)
      PROVE  LoopInv'
  BY <1>1 DEF Start
<1>2. CASE Recovery
  BY <1>2 DEF Recovery, RecoverRingWithoutMarker, RecoverRingWithBoth,
              RecoverRingRestoringKey, DropStaleJournal, FinishRecovery
<1>3. CASE Replay
  BY <1>3 DEF Replay, SkipEntry, OverlookEntry, RemoveEntry, RestoreEntry, RestoreEntryFails,
              FinishReplay
<1>4. CASE Body
  BY <1>4 DEF Body, Refuse, LockCheck, LockWithoutKey, CreateJournal,
              SyncJournal, StageKey, UnlockSaveKey, UnlockCheck, CommitKey,
              CommitJournal, Rollback
<1>5. CASE Refresh
  <2>1. ASSUME NEW w \in Worktrees, SkipWorktree(w) \/ RefreshWorktree(w)
        PROVE  LoopInv'
    BY <2>1 DEF SkipWorktree, RefreshWorktree
  <2>2. ASSUME NEW f \in Files, RemoveFile(f)
        PROVE  LoopInv'
    BY <2>2 DEF RemoveFile
  <2>3. ASSUME NEW f \in Files, CheckoutFile(f) \/ CheckoutFileFails(f)
        PROVE  LoopInv'
    BY <2>3 DEF CheckoutFile, CheckoutFileFails
  <2>4. CASE RefreshFails \/ FinishRefresh
    BY <2>4 DEF RefreshFails, FinishRefresh
  <2>5. QED
    BY <1>5, <2>1, <2>2, <2>3, <2>4 DEF Refresh
<1>6. CASE Environment
  BY <1>6 DEF Environment, Crash, UserEdits, UserCommits, MoveWorktree,
              RefresherStart, RefresherSave, RefresherGivesUp
<1>7. CASE UNCHANGED vars
  BY <1>7 DEF vars
<1>8. ASSUME NEW w \in Worktrees, MoveWorktree(w)
      PROVE  LoopInv'
  BY <1>8 DEF MoveWorktree
<1>9. QED
  BY <1>1, <1>2, <1>3, <1>4, <1>5, <1>6, <1>7, <1>8 DEF RacyNext, Next, CommandStep

(* An edit no command has looked at is one the user made since.              *)
LEMMA EditInvStep == ASSUME CoreInv, [RacyNext]_vars PROVE EditInv'
<1> USE DEF CoreInv, TypeOK, PhaseInv, RingInv, EditInv, Unseen, Return, Refreshing,
            Journaling, Startup, BeforeKey, RingFiles, FilesOf, Damaged, Dirty,
            Smudged, Replaying
<1>1. ASSUME NEW op \in Ops, NEW r \in Rings, NEW force \in BOOLEAN,
             Start(op, r, force)
      PROVE  EditInv'
  BY <1>1 DEF Start
<1>2. CASE Recovery
  BY <1>2 DEF Recovery, RecoverRingWithoutMarker, RecoverRingWithBoth,
              RecoverRingRestoringKey, DropStaleJournal, FinishRecovery
<1>3. CASE Replay
  <2>1. ASSUME NEW f \in Files, SkipEntry(f) \/ OverlookEntry(f) \/ RemoveEntry(f)
        PROVE  EditInv'
    BY <2>1 DEF SkipEntry, OverlookEntry, RemoveEntry
  <2>2. ASSUME NEW f \in Files, RestoreEntry(f)
        PROVE  EditInv'
    BY <2>2 DEF RestoreEntry
  <2>3. CASE RestoreEntryFails \/ FinishReplay
    BY <2>3 DEF RestoreEntryFails, FinishReplay
  <2>4. QED
    BY <1>3, <2>1, <2>2, <2>3 DEF Replay
<1>4. CASE Body
  <2>1. CASE LockCheck
    <3>1. ASSUME ~cmd.force, NEW f \in RingFiles(cmd.ring) \ Sparse, disk[f] = "edited"
          PROVE  <<"status", f>> \in silent'
      <4>1. f \in LockWarnings
        BY <3>1 DEF LockWarnings, Reachable
      <4>2. silent' = silent \cup ({"status"} \X LockWarnings)
        BY <2>1, <3>1 DEF LockCheck
      <4>3. QED
        BY <4>1, <4>2
    <3>2. pc' = "lock" /\ UNCHANGED <<cmd, disk>>
      BY <2>1 DEF LockCheck
    <3>3. QED
      BY <3>1, <3>2 DEF Unseen
  <2>2. CASE LockWithoutKey \/ CreateJournal
    <3>1. /\ pc = "lock" /\ pc' \in {"refresh", "journal"} /\ inflight' = {}
          /\ pc' = "refresh" => todo' = {}
          /\ silent \subseteq silent' /\ UNCHANGED <<cmd, disk, lateEdits>>
      BY <2>2 DEF LockWithoutKey, CreateJournal
    <3>2. QED
      BY <3>1 DEF Unseen
  <2>3. CASE SyncJournal \/ StageKey
    BY <2>3 DEF SyncJournal, StageKey
  <2>4. CASE UnlockSaveKey \/ UnlockCheck
    <3>1. cmd.op # "lock"
      BY <2>4 DEF UnlockSaveKey, UnlockCheck
    <3>2. pc' = "unlockCheck" \/ pc' = "idle" \/ (pc' = "refresh" /\ todo' = {} /\ inflight' = {})
      BY <2>4 DEF UnlockSaveKey, UnlockCheck
    <3>3. UNCHANGED cmd
      BY <2>4 DEF UnlockSaveKey, UnlockCheck
    <3>4. QED
      BY <3>1, <3>2, <3>3
  <2>5. CASE Refuse \/ CommitKey \/ CommitJournal \/ Rollback
    BY <2>5 DEF Refuse, CommitKey, CommitJournal, Rollback
  <2>6. QED
    BY <1>4, <2>1, <2>2, <2>3, <2>4, <2>5 DEF Body
<1>5. CASE Refresh
  <2>1. ASSUME NEW w \in Worktrees, SkipWorktree(w) \/ RefreshWorktree(w)
        PROVE  EditInv'
    <3>1. CASE SkipWorktree(w)
      BY <3>1 DEF SkipWorktree
    <3>2. CASE RefreshWorktree(w)
      <4>1. /\ UNCHANGED <<cmd, disk, inflight>> /\ inflight = {} /\ todo = {}
            /\ todo' \subseteq (RingFiles(cmd.ring) \cap FilesOf(w)) \ Sparse
            /\ silent \subseteq silent' /\ pc' \in {"refresh", "remove"}
        BY <3>2 DEF RefreshWorktree
      <4>2. CASE cmd.op = "lock"
        <5>1. UNCHANGED lateEdits
          BY <3>2, <4>2 DEF RefreshWorktree
        <5>2. QED
          BY <3>2, <4>1, <4>2, <5>1 DEF RefreshWorktree, Unseen
      <4>3. CASE cmd.op = "unlock"
        <5>1. ASSUME ~cmd.force, NEW f \in todo', disk[f] = "edited"
              PROVE  <<"status", f>> \in silent'
          <6>1. f \in Dirty(cmd.ring, {w})
            BY <4>1, <5>1
          <6>2. QED
            BY <3>2, <4>3, <5>1, <6>1 DEF RefreshWorktree, LooksAgain
        <5>2. QED
          BY <4>1, <4>3, <5>1 DEF Unseen
      <4>4. QED
        BY <3>2, <4>2, <4>3 DEF RefreshWorktree
    <3>3. QED
      BY <2>1, <3>1, <3>2
  <2>2. ASSUME NEW f \in Files, RemoveFile(f)
        PROVE  EditInv'
    BY <2>2 DEF RemoveFile
  <2>3. ASSUME NEW f \in Files, CheckoutFile(f)
        PROVE  EditInv'
    BY <2>3 DEF CheckoutFile
  <2>4. ASSUME NEW f \in Files, CheckoutFileFails(f)
        PROVE  EditInv'
    BY <2>4 DEF CheckoutFileFails
  <2>5. CASE RefreshFails \/ FinishRefresh
    BY <2>5 DEF RefreshFails, FinishRefresh
  <2>6. QED
    BY <1>5, <2>1, <2>2, <2>3, <2>4, <2>5 DEF Refresh
<1>6. CASE Environment
  BY <1>6 DEF Environment, Crash, UserEdits, UserCommits, MoveWorktree,
              RefresherStart, RefresherSave, RefresherGivesUp
<1>7. CASE UNCHANGED vars
  BY <1>7 DEF vars
<1>8. ASSUME NEW w \in Worktrees, MoveWorktree(w)
      PROVE  EditInv'
  BY <1>8 DEF MoveWorktree
<1>9. QED
  BY <1>1, <1>2, <1>3, <1>4, <1>5, <1>6, <1>7, <1>8 DEF RacyNext, Next, CommandStep

(* Nothing writes a file whose index entry says it is not checked out.       *)
LEMMA SparseInvStep == ASSUME CoreInv, [RacyNext]_vars PROVE SparseInv'
<1> USE DEF CoreInv, TypeOK, PhaseInv, Startup, Journaling, BeforeKey, SparseInv,
            Return, RingInv, Refreshing, Replaying, Damaged
<1>1. ASSUME NEW op \in Ops, NEW r \in Rings, NEW force \in BOOLEAN,
             Start(op, r, force)
      PROVE  SparseInv'
  BY <1>1 DEF Start
<1>2. CASE Recovery
  BY <1>2 DEF Recovery, RecoverRingWithoutMarker, RecoverRingWithBoth,
              RecoverRingRestoringKey, DropStaleJournal, FinishRecovery
<1>3. CASE Replay
  <2>1. ASSUME NEW f \in Files, SkipEntry(f) \/ OverlookEntry(f) \/ RemoveEntry(f)
        PROVE  SparseInv'
    BY <2>1, SparseType DEF SkipEntry, OverlookEntry, RemoveEntry
  <2>2. ASSUME NEW f \in Files, RestoreEntry(f)
        PROVE  SparseInv'
    BY <2>2, SparseType DEF RestoreEntry
  <2>3. CASE RestoreEntryFails \/ FinishReplay
    BY <2>3 DEF RestoreEntryFails, FinishReplay
  <2>4. QED
    BY <1>3, <2>1, <2>2, <2>3 DEF Replay
<1>4. CASE Body
  BY <1>4 DEF Body, Refuse, LockCheck, LockWithoutKey, CreateJournal,
              SyncJournal, StageKey, UnlockSaveKey, UnlockCheck, CommitKey,
              CommitJournal, Rollback
<1>5. CASE Refresh
  <2>1. ASSUME NEW w \in Worktrees, SkipWorktree(w) \/ RefreshWorktree(w)
        PROVE  SparseInv'
    BY <2>1 DEF SkipWorktree, RefreshWorktree
  <2>2. ASSUME NEW f \in Files, RemoveFile(f) \/ CheckoutFile(f)
        PROVE  SparseInv'
    BY <2>2, SparseType DEF RemoveFile, CheckoutFile
  <2>3. ASSUME NEW f \in Files, CheckoutFileFails(f)
        PROVE  SparseInv'
    BY <2>3 DEF CheckoutFileFails
  <2>4. CASE RefreshFails \/ FinishRefresh
    BY <2>4 DEF RefreshFails, FinishRefresh
  <2>5. QED
    BY <1>5, <2>1, <2>2, <2>3, <2>4 DEF Refresh
<1>6. CASE Environment
  <2>1. ASSUME NEW f \in Files, UserEdits(f) \/ UserCommits(f)
        PROVE  SparseInv'
    BY <2>1, SparseType DEF UserEdits, UserCommits
  <2>2. CASE Crash
    <3>1. CASE UNCHANGED disk
      BY <3>1
    <3>2. ASSUME pc \in {"checkout", "resmudge"}, NEW f \in inflight,
                 disk' = [disk EXCEPT ![f] = "empty"]
          PROVE  SparseInv'
      <4>1. f \notin Sparse
        BY <3>2
      <4>2. QED
        BY <3>2, <4>1, SparseType
    <3>3. QED
      BY <2>2, <3>1, <3>2 DEF Crash
  <2>3. QED
    BY <1>6, <2>1, <2>2 DEF Environment, MoveWorktree, RefresherStart,
                            RefresherSave, RefresherGivesUp
<1>7. CASE UNCHANGED vars
  BY <1>7 DEF vars
<1>8. ASSUME NEW w \in Worktrees, MoveWorktree(w)
      PROVE  SparseInv'
  BY <1>8 DEF MoveWorktree
<1>9. QED
  BY <1>1, <1>2, <1>3, <1>4, <1>5, <1>6, <1>7, <1>8 DEF RacyNext, Next, CommandStep

-----------------------------------------------------------------------------
(* The parts that need the drives to stay where they are while a command     *)
(* runs.                                                                     *)

(* Between the journal and the decision no drive moves, so targets stay.     *)
LEMMA TargetInvStep == ASSUME IInv, [Next]_vars PROVE TargetInv'
<1> USE DEF IInv, CoreInv, TypeOK, PhaseInv, MarkerInv, JournalInv, TargetInv,
            Return, Startup, Replaying, BeforeKey, Journaling, Refreshing, Deciding,
            Staged, RingFiles, Reachable
<1>1. ASSUME NEW op \in Ops, NEW r \in Rings, NEW force \in BOOLEAN,
             Start(op, r, force)
      PROVE  TargetInv'
  BY <1>1 DEF Start
<1>2. CASE Recovery
  BY <1>2 DEF Recovery, RecoverRingWithoutMarker, RecoverRingWithBoth,
              RecoverRingRestoringKey, DropStaleJournal, FinishRecovery
<1>3. CASE Replay
  BY <1>3 DEF Replay, SkipEntry, OverlookEntry, RemoveEntry, RestoreEntry, RestoreEntryFails,
              FinishReplay
<1>4. CASE Body
  <2>1. CASE StageKey
    <3>1. \A f \in RingFiles(cmd.ring) \cap Reachable :
            f \in jentries \/ <<"journal", f>> \in silent
      BY <2>1 DEF StageKey
    <3>2. QED
      BY <2>1, <3>1 DEF StageKey
  <2>2. CASE CreateJournal \/ SyncJournal
    BY <2>2 DEF CreateJournal, SyncJournal
  <2>3. CASE \/ Refuse \/ LockCheck \/ LockWithoutKey \/ UnlockSaveKey \/ UnlockCheck
             \/ CommitKey \/ CommitJournal \/ Rollback
    BY <2>3 DEF Refuse, LockCheck, LockWithoutKey, UnlockSaveKey, UnlockCheck,
                CommitKey, CommitJournal, Rollback
  <2>4. QED
    BY <1>4, <2>1, <2>2, <2>3 DEF Body
<1>5. CASE Refresh
  <2>1. ASSUME NEW w \in Worktrees, SkipWorktree(w) \/ RefreshWorktree(w)
        PROVE  TargetInv'
    BY <2>1 DEF SkipWorktree, RefreshWorktree
  <2>2. ASSUME NEW f \in Files, RemoveFile(f)
        PROVE  TargetInv'
    BY <2>2 DEF RemoveFile
  <2>3. ASSUME NEW f \in Files, CheckoutFile(f)
        PROVE  TargetInv'
    BY <2>3 DEF CheckoutFile
  <2>4. ASSUME NEW f \in Files, CheckoutFileFails(f)
        PROVE  TargetInv'
    BY <2>4 DEF CheckoutFileFails
  <2>5. CASE RefreshFails \/ FinishRefresh
    BY <2>5 DEF RefreshFails, FinishRefresh
  <2>6. QED
    BY <1>5, <2>1, <2>2, <2>3, <2>4, <2>5 DEF Refresh
<1>6. CASE Environment
  BY <1>6 DEF Environment, Crash, UserEdits, UserCommits, MoveWorktree,
              RefresherStart, RefresherSave, RefresherGivesUp
<1>7. CASE UNCHANGED vars
  BY <1>7 DEF vars
<1>8. QED
  BY <1>1, <1>2, <1>3, <1>4, <1>5, <1>6, <1>7 DEF Next, CommandStep

(* Replay decrypts with the key it has just put back, entry after entry.     *)
LEMMA ReplayInvStep == ASSUME IInv, [Next]_vars PROVE ReplayInv'
<1> USE DEF IInv, CoreInv, TypeOK, PhaseInv, Startup, MarkerInv, JournalInv, ReplayInv,
            Return, Replaying, Deciding, Refreshing, Staged, RingFiles,
            Reachable, Damaged, Scanning, SparseInv, Smudged, RefreshInv
<1>1. ASSUME NEW op \in Ops, NEW r \in Rings, NEW force \in BOOLEAN,
             Start(op, r, force)
      PROVE  ReplayInv'
  BY <1>1 DEF Start
<1>2. CASE Recovery
  BY <1>2 DEF Recovery, RecoverRingWithoutMarker, RecoverRingWithBoth,
              RecoverRingRestoringKey, DropStaleJournal, FinishRecovery
<1>3. CASE Replay
  <2>1. ASSUME NEW f \in Files, SkipEntry(f)
        PROVE  ReplayInv'
    BY <2>1 DEF SkipEntry
  <2>2. ASSUME NEW f \in Files, OverlookEntry(f)
        PROVE  ReplayInv'
    BY <2>2 DEF OverlookEntry
  <2>3. ASSUME NEW f \in Files, RemoveEntry(f)
        PROVE  ReplayInv'
    BY <2>3 DEF RemoveEntry
  <2>4. ASSUME NEW f \in Files, RestoreEntry(f)
        PROVE  ReplayInv'
    BY <2>4 DEF RestoreEntry
  <2>5. CASE RestoreEntryFails \/ FinishReplay
    BY <2>5 DEF RestoreEntryFails, FinishReplay
  <2>6. QED
    BY <1>3, <2>1, <2>2, <2>3, <2>4, <2>5 DEF Replay
<1>4. CASE Body
  <2>1. CASE Rollback
    <3>1. jstate = "valid" /\ jentries \subseteq RingFiles(cmd.ring)
      BY <2>1 DEF Rollback
    <3>2. /\ todo' = jentries /\ inflight' = {} /\ pc' = "replay"
          /\ cmd.ring \in key' /\ UNCHANGED <<jstate, jentries, cmd>>
      BY <2>1 DEF Rollback
    <3>3. QED
      BY <3>1, <3>2
  <2>2. CASE \/ Refuse \/ LockCheck \/ LockWithoutKey \/ CreateJournal \/ SyncJournal
             \/ StageKey \/ UnlockSaveKey \/ UnlockCheck \/ CommitKey
             \/ CommitJournal
    BY <2>2 DEF Refuse, LockCheck, LockWithoutKey, CreateJournal, SyncJournal, StageKey,
                UnlockSaveKey, UnlockCheck, CommitKey, CommitJournal
  <2>3. QED
    BY <1>4, <2>1, <2>2 DEF Body
<1>5. CASE Refresh
  BY <1>5 DEF Refresh, SkipWorktree, RefreshWorktree, RemoveFile, CheckoutFile,
              CheckoutFileFails, RefreshFails, FinishRefresh
<1>6. CASE Environment
  BY <1>6 DEF Environment, Crash, UserEdits, UserCommits, MoveWorktree,
              RefresherStart, RefresherSave, RefresherGivesUp
<1>7. CASE UNCHANGED vars
  BY <1>7 DEF vars
<1>8. QED
  BY <1>1, <1>2, <1>3, <1>4, <1>5, <1>6, <1>7 DEF Next, CommandStep

(* The scan passes by a file that is not damaged or that it has checked out. *)
LEMMA ScanInvStep == ASSUME IInv, [Next]_vars PROVE ScanInv'
<1> USE DEF IInv, CoreInv, TypeOK, PhaseInv, Startup, MarkerInv, JournalInv, ScanInv,
            Return, Replaying, Deciding, Refreshing, Staged, Reachable,
            Damaged, Scanning, Smudged
<1>1. ASSUME NEW op \in Ops, NEW r \in Rings, NEW force \in BOOLEAN,
             Start(op, r, force)
      PROVE  ScanInv'
  BY <1>1 DEF Start
<1>2. CASE Recovery
  BY <1>2 DEF Recovery, RecoverRingWithoutMarker, RecoverRingWithBoth,
              RecoverRingRestoringKey, DropStaleJournal, FinishRecovery
<1>3. CASE Replay
  BY <1>3 DEF Replay, SkipEntry, OverlookEntry, RemoveEntry, RestoreEntry, RestoreEntryFails,
              FinishReplay
<1>4. CASE Body
  BY <1>4 DEF Body, Refuse, LockCheck, LockWithoutKey, CreateJournal,
              SyncJournal, StageKey, UnlockSaveKey, UnlockCheck, CommitKey,
              CommitJournal, Rollback
<1>5. CASE Refresh
  BY <1>5 DEF Refresh, SkipWorktree, RefreshWorktree, RemoveFile, CheckoutFile,
              CheckoutFileFails, RefreshFails, FinishRefresh
<1>6. CASE Environment
  BY <1>6 DEF Environment, Crash, UserEdits, UserCommits, MoveWorktree,
              RefresherStart, RefresherSave, RefresherGivesUp
<1>7. CASE UNCHANGED vars
  BY <1>7 DEF vars
<1>8. QED
  BY <1>1, <1>2, <1>3, <1>4, <1>5, <1>6, <1>7 DEF Next, CommandStep

(* A worktree the refresh has left stays encrypted while the key is staged.  *)
LEMMA RefreshInvStep == ASSUME IInv, [Next]_vars PROVE RefreshInv'
<1> USE DEF IInv, CoreInv, TypeOK, PhaseInv, Startup, MarkerInv, RefreshInv, Return,
            Refreshing, Deciding, Staged, RingFiles, Reachable, Targets,
            FilesOf, SparseInv, Smudged, Journaling, BeforeKey
<1>1. ASSUME NEW op \in Ops, NEW r \in Rings, NEW force \in BOOLEAN,
             Start(op, r, force)
      PROVE  RefreshInv'
  BY <1>1 DEF Start
<1>2. CASE Recovery
  BY <1>2 DEF Recovery, RecoverRingWithoutMarker, RecoverRingWithBoth,
              RecoverRingRestoringKey, DropStaleJournal, FinishRecovery
<1>3. CASE Replay
  BY <1>3 DEF Replay, SkipEntry, OverlookEntry, RemoveEntry, RestoreEntry, RestoreEntryFails,
              FinishReplay
<1>4. CASE Body
  BY <1>4 DEF Body, Refuse, LockCheck, LockWithoutKey, CreateJournal,
              SyncJournal, StageKey, UnlockSaveKey, UnlockCheck, CommitKey,
              CommitJournal, Rollback
<1>5. CASE Refresh
  <2>1. ASSUME NEW w \in Worktrees, SkipWorktree(w) \/ RefreshWorktree(w)
        PROVE  RefreshInv'
    <3>1. CASE SkipWorktree(w)
      BY <3>1 DEF SkipWorktree, LooksAgain
    <3>2. CASE RefreshWorktree(w)
      <4> DEFINE secrets == (RingFiles(cmd.ring) \cap FilesOf(w)) \ Sparse
      <4>1. /\ UNCHANGED <<cmd, disk, attached, locking, inflight>>
            /\ wts' = wts \ {w} /\ w \in attached /\ todo = {} /\ inflight = {}
            /\ pc = "refresh" /\ pc' \in {"refresh", "remove"}
        BY <3>2 DEF RefreshWorktree
      <4>2. todo' \subseteq secrets /\ silent \subseteq silent'
        BY <3>2 DEF RefreshWorktree
      <4>3. \A f \in secrets : f \in todo' \/ <<"refresh", f>> \in silent'
        BY <3>2 DEF RefreshWorktree
      <4>4. \A f \in Targets : f[1] = w => f \in secrets
        OBVIOUS
      <4>5. secrets \subseteq Targets
        BY <4>1
      <4>6. QED
        BY <4>1, <4>2, <4>3, <4>4, <4>5
    <3>3. QED
      BY <2>1, <3>1, <3>2
  <2>2. ASSUME NEW f \in Files, RemoveFile(f) \/ CheckoutFile(f)
        PROVE  RefreshInv'
    BY <2>2 DEF RemoveFile, CheckoutFile
  <2>3. ASSUME NEW f \in Files, CheckoutFileFails(f)
        PROVE  RefreshInv'
    BY <2>3 DEF CheckoutFileFails
  <2>4. CASE RefreshFails \/ FinishRefresh
    BY <2>4 DEF RefreshFails, FinishRefresh
  <2>5. QED
    BY <1>5, <2>1, <2>2, <2>3, <2>4 DEF Refresh
<1>6. CASE Environment
  BY <1>6 DEF Environment, Crash, UserEdits, UserCommits, MoveWorktree,
              RefresherStart, RefresherSave, RefresherGivesUp
<1>7. CASE UNCHANGED vars
  BY <1>7 DEF vars
<1>8. QED
  BY <1>1, <1>2, <1>3, <1>4, <1>5, <1>6, <1>7 DEF Next, CommandStep
-----------------------------------------------------------------------------
(* Every part of IInv holds in the states a repository starts from, and in   *)
(* those an older release leaves when it is killed in the middle of a lock.  *)
LEMMA InitIInv == Init \/ LegacyInit => IInv
<1> SUFFICES ASSUME Init \/ LegacyInit PROVE IInv
  OBVIOUS
<1>1. TypeOK
  <2>1. CountersOK
    BY DEF Init, LegacyInit, CountersOK
  <2>2. cmd \in Commands
    <3>1. cmd = [op |-> "status", ring |-> CHOOSE r \in Rings : TRUE,
                 force |-> FALSE]
      BY DEF Init, LegacyInit
    <3>2. (CHOOSE r \in Rings : TRUE) \in Rings
      BY RingsType
    <3>3. QED
      BY <3>1, <3>2 DEF Commands
  <2>3. disk \in [Files -> Content]
    <3>1. CASE Init
      BY <3>1 DEF Init, Content, Smudged
    <3>2. CASE LegacyInit
      BY <3>2 DEF LegacyInit
    <3>3. QED
      BY <3>1, <3>2
  <2>4. key \subseteq Rings /\ locking \subseteq Rings
    BY DEF Init, LegacyInit
  <2>5. /\ jstate = "none" /\ jentries = {} /\ attached = Worktrees
        /\ pc = "idle" /\ startup = FALSE /\ sawLocking = FALSE
        /\ ringsLeft = {} /\ wts = {} /\ todo = {} /\ inflight = {}
        /\ lateEdits = {} /\ refresher = {} /\ silent = {}
    BY DEF Init, LegacyInit
  <2>6. QED
    BY <2>1, <2>2, <2>3, <2>4, <2>5 DEF TypeOK, PcValues
<1>2. PhaseInv /\ MarkerInv /\ JournalInv /\ RingInv /\ TargetInv
  BY DEF Init, LegacyInit, PhaseInv, MarkerInv, JournalInv, RingInv, TargetInv,
         Startup, Replaying, BeforeKey, Journaling, Refreshing, Deciding
<1>3. ReplayInv /\ ScanInv /\ LoopInv /\ RefreshInv /\ EditInv
  BY DEF Init, LegacyInit, ReplayInv, ScanInv, LoopInv, RefreshInv, EditInv,
         Replaying, Journaling, Refreshing
<1>4. SparseInv
  BY SparseType DEF Init, LegacyInit, SparseInv
<1>5. QED
  BY <1>1, <1>2, <1>3, <1>4 DEF IInv, CoreInv

(* CoreInv is inductive even when drives come and go in the middle of a      *)
(* command.                                                                  *)
LEMMA CoreInvStep == ASSUME CoreInv, [RacyNext]_vars PROVE CoreInv'
BY TypeStep, PhaseInvStep, MarkerInvStep, JournalInvStep, RingInvStep, LoopInvStep,
   EditInvStep, SparseInvStep DEF CoreInv

(* Every behaviour is one of RacySpec.                                       *)
LEMMA EverySpecIsRacy == Spec \/ LegacySpec => RacySpec
<1>1. [Next]_vars => [RacyNext]_vars
  BY DEF RacyNext
<1>2. QED
  BY <1>1, PTL DEF Spec, LegacySpec, RacySpec

(* CoreInv holds in every reachable state, wherever the drives are.          *)
THEOREM CoreInvariance == RacySpec => []CoreInv
<1>1. Init \/ LegacyInit => CoreInv
  BY InitIInv DEF IInv
<1>2. QED
  BY <1>1, CoreInvStep, PTL DEF RacySpec

(* The variables keep their types.                                           *)
THEOREM TypeCorrect == Spec \/ LegacySpec \/ RacySpec => []TypeOK
<1>1. CoreInv => TypeOK
  BY DEF CoreInv
<1>2. QED
  BY <1>1, CoreInvariance, EverySpecIsRacy, PTL

(* IInv is inductive when drives only move between commands.                 *)
THEOREM Invariance == Spec \/ LegacySpec => []IInv
<1>1. IInv /\ [Next]_vars => IInv'
  <2>1. [Next]_vars => [RacyNext]_vars
    BY DEF RacyNext
  <2>2. QED
    BY <2>1, CoreInvStep, TargetInvStep, ReplayInvStep, ScanInvStep, RefreshInvStep
       DEF IInv
<1>2. QED
  BY InitIInv, <1>1, PTL DEF Spec, LegacySpec

(* Recovery leaves no staged key and no journal to the command it precedes,  *)
(* whatever drives come and go.                                              *)
THEOREM StartsClean == Spec \/ LegacySpec \/ RacySpec => []BodyStartsClean
<1>1. CoreInv => BodyStartsClean
  BY DEF CoreInv, MarkerInv, JournalInv, BodyStartsClean, BeforeKey
<1>2. QED
  BY <1>1, CoreInvariance, EverySpecIsRacy, PTL

(* The shared lock.journal always belongs to the one ring being locked.      *)
THEOREM SingleTransaction == Spec \/ LegacySpec \/ RacySpec => []OneTransaction
<1>1. CoreInv => OneTransaction
  BY DEF CoreInv, MarkerInv, JournalInv, OneTransaction
<1>2. QED
  BY <1>1, CoreInvariance, EverySpecIsRacy, PTL
-----------------------------------------------------------------------------
(* What no step may do, in any reachable state.                              *)

(* Only the refresh of the locked ring, after its journal was synchronised,  *)
(* removes or encrypts a secret whose key is staged; no replay does.         *)
THEOREM JournalFirst == Spec \/ LegacySpec => WriteAhead
<1> DEFINE Unlogged(f) == /\ RingOf[f[2]] \in locking \ key
                          /\ disk'[f] # disk[f] /\ disk'[f] \in {"missing", "cipher", "empty"}
           Logged(f) == jstate = "valid" /\ (f \in jentries \/ <<"journal", f>> \in silent)
<1>1. IInv /\ [Next]_vars =>
        [\A f \in Files : Unlogged(f) => Logged(f)]_vars
  <2> SUFFICES ASSUME IInv, Next, NEW g \in Files, Unlogged(g)
               PROVE  Logged(g)
    BY DEF vars
  <2> USE DEF IInv, CoreInv, TypeOK, MarkerInv, JournalInv, TargetInv, ReplayInv,
              RefreshInv, Targets, Refreshing, Deciding, Replaying, Staged
  <2>1. CASE \E op \in Ops, r \in Rings, force \in BOOLEAN : Start(op, r, force)
    BY <2>1 DEF Start
  <2>2. CASE Recovery
    BY <2>2 DEF Recovery, RecoverRingWithoutMarker, RecoverRingWithBoth,
                RecoverRingRestoringKey, DropStaleJournal, FinishRecovery
  <2>3. CASE Replay
    BY <2>3 DEF Replay, SkipEntry, OverlookEntry, RemoveEntry, RestoreEntry,
                RestoreEntryFails, FinishReplay
  <2>4. CASE Body
    BY <2>4 DEF Body, Refuse, LockCheck, LockWithoutKey, CreateJournal,
                SyncJournal, StageKey, UnlockSaveKey, UnlockCheck, CommitKey,
                CommitJournal, Rollback
  <2>5. CASE Refresh
    <3>1. ASSUME NEW f \in Files, RemoveFile(f)
          PROVE  Logged(g)
      BY <3>1 DEF RemoveFile
    <3>2. ASSUME NEW f \in Files, CheckoutFile(f)
          PROVE  Logged(g)
      BY <3>2 DEF CheckoutFile
    <3>3. ASSUME UNCHANGED <<key, locking, disk>>
          PROVE  Logged(g)
      BY <3>3
    <3>4. QED
      BY <2>5, <3>1, <3>2, <3>3 DEF Refresh, SkipWorktree, RefreshWorktree,
              CheckoutFileFails, RefreshFails, FinishRefresh
  <2>6. CASE Environment
    BY <2>6 DEF Environment, Crash, UserEdits, UserCommits, MoveWorktree,
                RefresherStart, RefresherSave, RefresherGivesUp
  <2>7. QED
    BY <2>1, <2>2, <2>3, <2>4, <2>5, <2>6 DEF Next, CommandStep
<1>2. QED
  BY Invariance, <1>1, PTL DEF Spec, LegacySpec, WriteAhead

(* Without --force an unexamined edit is only lost when it is made after the *)
(* check that looked for it; recovery and rollback remove none.              *)
THEOREM EditsAreKept == Spec \/ LegacySpec \/ RacySpec => EditsSurvive
<1> DEFINE Lost(f) == disk[f] = "edited" /\ disk'[f] # "edited"
           Excused(f) == \/ pc = "idle"
                         \/ f \in lateEdits
                         \/ <<"status", f>> \in silent /\ pc \in {"remove", "checkout"}
                         \/ cmd.force /\ ~startup /\ pc \in {"remove", "checkout"}
<1>1. CoreInv /\ [RacyNext]_vars => [\A f \in Files : Lost(f) => Excused(f)]_vars
  <2> SUFFICES ASSUME CoreInv, RacyNext, NEW g \in Files, Lost(g)
               PROVE  Excused(g)
    BY DEF vars
  <2> USE DEF CoreInv, TypeOK, PhaseInv, EditInv, Unseen, Refreshing, Journaling,
              Startup, Replaying, Damaged
  <2>1. CASE \E op \in Ops, r \in Rings, force \in BOOLEAN : Start(op, r, force)
    BY <2>1 DEF Start
  <2>2. CASE Recovery
    BY <2>2 DEF Recovery, RecoverRingWithoutMarker, RecoverRingWithBoth,
                RecoverRingRestoringKey, DropStaleJournal, FinishRecovery
  <2>3. CASE Replay
    BY <2>3 DEF Replay, SkipEntry, OverlookEntry, RemoveEntry, RestoreEntry,
                RestoreEntryFails, FinishReplay
  <2>4. CASE Body
    BY <2>4 DEF Body, Refuse, LockCheck, LockWithoutKey, CreateJournal,
                SyncJournal, StageKey, UnlockSaveKey, UnlockCheck, CommitKey,
                CommitJournal, Rollback
  <2>5. CASE Refresh
    BY <2>5 DEF Refresh, SkipWorktree, RefreshWorktree, RemoveFile, CheckoutFile,
                CheckoutFileFails, RefreshFails, FinishRefresh
  <2>6. CASE Environment
    BY <2>6 DEF Environment, Crash, UserEdits, UserCommits, MoveWorktree,
                RefresherStart, RefresherSave, RefresherGivesUp
  <2>7. ASSUME NEW w \in Worktrees, MoveWorktree(w)
        PROVE  Excused(g)
    BY <2>7 DEF MoveWorktree
  <2>8. QED
    BY <2>1, <2>2, <2>3, <2>4, <2>5, <2>6, <2>7 DEF RacyNext, Next, CommandStep
<1>2. QED
  BY CoreInvariance, EverySpecIsRacy, <1>1, PTL DEF RacySpec, EditsSurvive

(* A replay discards the journal only when every file it lists is sound.     *)
THEOREM ReplayIsComplete == Spec \/ LegacySpec => ReplayLeavesNoDamage
<1>1. IInv /\ [Next]_vars =>
        [pc = "replay" /\ jstate = "valid" /\ jstate' = "none" =>
           \A f \in jentries : Damaged(f) => <<"recovery", f>> \in silent]_vars
  <2> SUFFICES ASSUME IInv, Next, pc = "replay", jstate = "valid",
                      jstate' = "none"
               PROVE  \A f \in jentries : Damaged(f) => <<"recovery", f>> \in silent
    BY DEF vars
  <2> USE DEF IInv, ReplayInv, Replaying
  <2>1. CASE \E op \in Ops, r \in Rings, force \in BOOLEAN : Start(op, r, force)
    BY <2>1 DEF Start
  <2>2. CASE Recovery
    BY <2>2 DEF Recovery, RecoverRingWithoutMarker, RecoverRingWithBoth,
                RecoverRingRestoringKey, DropStaleJournal, FinishRecovery
  <2>3. CASE Replay
    BY <2>3 DEF Replay, SkipEntry, OverlookEntry, RemoveEntry, RestoreEntry,
                RestoreEntryFails, FinishReplay
  <2>4. CASE Body
    BY <2>4 DEF Body, Refuse, LockCheck, LockWithoutKey, CreateJournal,
                SyncJournal, StageKey, UnlockSaveKey, UnlockCheck, CommitKey,
                CommitJournal, Rollback
  <2>5. CASE Refresh
    BY <2>5 DEF Refresh, SkipWorktree, RefreshWorktree, RemoveFile, CheckoutFile,
                CheckoutFileFails, RefreshFails, FinishRefresh
  <2>6. CASE Environment
    BY <2>6 DEF Environment, Crash, UserEdits, UserCommits, MoveWorktree,
                RefresherStart, RefresherSave, RefresherGivesUp
  <2>7. QED
    BY <2>1, <2>2, <2>3, <2>4, <2>5, <2>6 DEF Next, CommandStep
<1>2. QED
  BY Invariance, <1>1, PTL DEF Spec, LegacySpec, ReplayLeavesNoDamage

(* The scan that stands in for a missing journal leaves no ciphertext where  *)
(* the key is back.                                                          *)
THEOREM ScanIsComplete == Spec \/ LegacySpec => ScanLeavesNoCiphertext
<1>1. IInv /\ [Next]_vars =>
        [pc = "replay" /\ Scanning /\ pc' = "recover" =>
           \A f \in Reachable :
             disk[f] = "cipher" /\ RingOf[f[2]] \in key => <<"recovery", f>> \in silent]_vars
  <2> SUFFICES ASSUME IInv, Next, pc = "replay", Scanning, pc' = "recover",
                      NEW f \in Reachable, disk[f] = "cipher", RingOf[f[2]] \in key
               PROVE  <<"recovery", f>> \in silent
    BY DEF vars
  <2> USE DEF IInv, CoreInv, ScanInv, PhaseInv, Startup, Replaying
  <2>1. CASE \E op \in Ops, r \in Rings, force \in BOOLEAN : Start(op, r, force)
    BY <2>1 DEF Start
  <2>2. CASE Recovery
    BY <2>2 DEF Recovery, RecoverRingWithoutMarker, RecoverRingWithBoth,
                RecoverRingRestoringKey, DropStaleJournal, FinishRecovery
  <2>3. CASE Replay
    BY <2>3 DEF Replay, SkipEntry, OverlookEntry, RemoveEntry, RestoreEntry,
                RestoreEntryFails, FinishReplay
  <2>4. CASE Body
    BY <2>4 DEF Body, Refuse, LockCheck, LockWithoutKey, CreateJournal,
                SyncJournal, StageKey, UnlockSaveKey, UnlockCheck, CommitKey,
                CommitJournal, Rollback
  <2>5. CASE Refresh
    BY <2>5 DEF Refresh, SkipWorktree, RefreshWorktree, RemoveFile, CheckoutFile,
                CheckoutFileFails, RefreshFails, FinishRefresh
  <2>6. CASE Environment
    <3>1. pc' \in {pc, "idle"}
      BY <2>6 DEF Environment, Crash, Return, UserEdits, UserCommits,
                  MoveWorktree, RefresherStart, RefresherSave, RefresherGivesUp
    <3>2. QED
      BY <3>1
  <2>7. QED
    BY <2>1, <2>2, <2>3, <2>4, <2>5, <2>6 DEF Next, CommandStep
<1>2. QED
  BY Invariance, <1>1, PTL DEF Spec, LegacySpec, ScanLeavesNoCiphertext

(* A command's body works on the key and the files of its own ring only.     *)
THEOREM RingIsolation == Spec \/ LegacySpec \/ RacySpec => OtherRingsUntouched
<1> DEFINE Untouched(r) == /\ r \in key <=> r \in key'
                           /\ r \in locking <=> r \in locking'
                           /\ \A f \in RingFiles(r) : disk'[f] \in {disk[f], "edited"}
<1>1. CoreInv /\ [RacyNext]_vars =>
        [pc # "idle" /\ ~startup =>
           \A r \in Rings \ {cmd.ring} : Untouched(r)]_vars
  <2> SUFFICES ASSUME CoreInv, RacyNext, pc # "idle", ~startup,
                      NEW s \in Rings \ {cmd.ring}
               PROVE  Untouched(s)
    BY DEF vars
  <2> USE DEF CoreInv, TypeOK, PhaseInv, MarkerInv, RingInv, Refreshing, Startup, Replaying, RingFiles
  <2>1. CASE \E op \in Ops, r \in Rings, force \in BOOLEAN : Start(op, r, force)
    BY <2>1 DEF Start
  <2>2. CASE Recovery
    BY <2>2 DEF Recovery, RecoverRingWithoutMarker, RecoverRingWithBoth,
                RecoverRingRestoringKey, DropStaleJournal, FinishRecovery
  <2>3. CASE Replay
    <3>1. ASSUME NEW f \in Files, SkipEntry(f)
          PROVE  Untouched(s)
      BY <3>1 DEF SkipEntry
    <3>2. ASSUME NEW f \in Files, OverlookEntry(f)
          PROVE  Untouched(s)
      BY <3>2 DEF OverlookEntry
    <3>3. ASSUME NEW f \in Files, RemoveEntry(f)
          PROVE  Untouched(s)
      BY <3>3 DEF RemoveEntry
    <3>4. ASSUME NEW f \in Files, RestoreEntry(f)
          PROVE  Untouched(s)
      BY <3>4 DEF RestoreEntry
    <3>5. CASE RestoreEntryFails \/ FinishReplay
      BY <3>5 DEF RestoreEntryFails, FinishReplay
    <3>6. QED
      BY <2>3, <3>1, <3>2, <3>3, <3>4, <3>5 DEF Replay
  <2>4. CASE Body
    BY <2>4 DEF Body, Refuse, LockCheck, LockWithoutKey, CreateJournal,
                SyncJournal, StageKey, UnlockSaveKey, UnlockCheck, CommitKey,
                CommitJournal, Rollback
  <2>5. CASE Refresh
    <3>1. ASSUME NEW f \in Files, RemoveFile(f)
          PROVE  Untouched(s)
      BY <3>1 DEF RemoveFile
    <3>2. ASSUME NEW f \in Files, CheckoutFile(f)
          PROVE  Untouched(s)
      BY <3>2 DEF CheckoutFile
    <3>3. ASSUME UNCHANGED <<key, locking, disk>>
          PROVE  Untouched(s)
      BY <3>3
    <3>4. QED
      BY <2>5, <3>1, <3>2, <3>3 DEF Refresh, SkipWorktree, RefreshWorktree,
              CheckoutFileFails, RefreshFails, FinishRefresh
  <2>6. CASE Environment
    BY <2>6 DEF Environment, Crash, UserEdits, UserCommits, MoveWorktree,
                RefresherStart, RefresherSave, RefresherGivesUp
  <2>7. ASSUME NEW w \in Worktrees, MoveWorktree(w)
        PROVE  Untouched(s)
    BY <2>7 DEF MoveWorktree
  <2>8. QED
    BY <2>1, <2>2, <2>3, <2>4, <2>5, <2>6, <2>7 DEF RacyNext, Next, CommandStep
<1>2. QED
  BY CoreInvariance, EverySpecIsRacy, <1>1, PTL DEF RacySpec, OtherRingsUntouched
-----------------------------------------------------------------------------
(* Every step of a command brings it closer to its return: its part, the    *)
(* rings, worktrees and files left to visit go down in this order, so with  *)
(* finitely many of them no loop of recovery, replay or refresh runs for    *)
(* ever.                                                                    *)
THEOREM CommandAdvances == ASSUME CoreInv, CommandStep PROVE Closer
<1> USE DEF CoreInv, TypeOK, PhaseInv, LoopInv, PcValues, Return, Startup,
            Replaying, BeforeKey, Journaling, Refreshing, Deciding, Fewer
<1>1. ASSUME NEW r \in Rings,
             \/ RecoverRingWithoutMarker(r)
             \/ RecoverRingWithBoth(r)
             \/ RecoverRingRestoringKey(r)
      PROVE  Closer
  BY <1>1 DEF RecoverRingWithoutMarker, RecoverRingWithBoth,
              RecoverRingRestoringKey, Closer, Phase, Visit
<1>2. CASE DropStaleJournal \/ FinishRecovery
  BY <1>2 DEF DropStaleJournal, FinishRecovery, Closer, Phase, Visit
<1>3. CASE Replay
  <2>1. ASSUME NEW f \in Files, SkipEntry(f)
        PROVE  Closer
    BY <2>1 DEF SkipEntry, Closer, Phase, Visit
  <2>2. ASSUME NEW f \in Files, OverlookEntry(f)
        PROVE  Closer
    BY <2>2 DEF OverlookEntry, Closer, Phase, Visit
  <2>3. ASSUME NEW f \in Files, RemoveEntry(f)
        PROVE  Closer
    BY <2>3 DEF RemoveEntry, Closer, Phase, Visit
  <2>4. ASSUME NEW f \in Files, RestoreEntry(f)
        PROVE  Closer
    BY <2>4 DEF RestoreEntry, Closer, Phase, Visit
  <2>5. CASE RestoreEntryFails \/ FinishReplay
    BY <2>5 DEF RestoreEntryFails, FinishReplay, Closer, Phase, Visit
  <2>6. QED
    BY <1>3, <2>1, <2>2, <2>3, <2>4, <2>5 DEF Replay
<1>4. CASE Body
  BY <1>4 DEF Body, Refuse, LockCheck, LockWithoutKey, CreateJournal,
              SyncJournal, StageKey, UnlockSaveKey, UnlockCheck, CommitKey,
              CommitJournal, Rollback, Closer, Phase, Visit
<1>5. ASSUME NEW w \in Worktrees, SkipWorktree(w) \/ RefreshWorktree(w)
      PROVE  Closer
  BY <1>5 DEF SkipWorktree, RefreshWorktree, Closer, Phase, Visit
<1>6. ASSUME NEW f \in Files,
             RemoveFile(f) \/ CheckoutFile(f) \/ CheckoutFileFails(f)
      PROVE  Closer
  BY <1>6 DEF RemoveFile, CheckoutFile, CheckoutFileFails, Closer, Phase, Visit
<1>7. CASE RefreshFails \/ FinishRefresh
  BY <1>7 DEF RefreshFails, FinishRefresh, Closer, Phase, Visit
<1>8. QED
  BY <1>1, <1>2, <1>3, <1>4, <1>5, <1>6, <1>7 DEF CommandStep, Recovery, Refresh

(* And nothing that happens around a command sets it back.                  *)
THEOREM NothingSetsItBack ==
  Spec \/ LegacySpec \/ RacySpec =>
    [][pc # "idle" => Closer \/ UNCHANGED Position]_vars
<1>1. CoreInv /\ [RacyNext]_vars =>
        [pc # "idle" => Closer \/ UNCHANGED Position]_vars
  <2> SUFFICES ASSUME CoreInv, RacyNext, pc # "idle"
               PROVE  Closer \/ UNCHANGED Position
    OBVIOUS
  <2>1. CASE CommandStep
    BY <2>1, CommandAdvances
  <2>2. CASE Crash
    BY <2>2 DEF Crash, Return, Closer, Phase, CoreInv, TypeOK, PcValues, PhaseInv,
       Startup, Replaying, Refreshing, Deciding
  <2>3. ASSUME NEW f \in Files, UserEdits(f) \/ UserCommits(f)
        PROVE  UNCHANGED Position
    BY <2>3 DEF UserEdits, UserCommits, Position
  <2>4. ASSUME NEW r \in Rings,
               RefresherStart(r) \/ RefresherSave(r) \/ RefresherGivesUp(r)
        PROVE  UNCHANGED Position
    BY <2>4 DEF RefresherStart, RefresherSave, RefresherGivesUp, Position
  <2>5. ASSUME NEW w \in Worktrees, MoveWorktree(w)
        PROVE  UNCHANGED Position
    BY <2>5 DEF MoveWorktree, Position
  <2>6. QED
    BY <2>1, <2>2, <2>3, <2>4, <2>5 DEF RacyNext, Next, Environment, Start
<1>2. QED
  BY CoreInvariance, EverySpecIsRacy, <1>1, PTL DEF RacySpec
-----------------------------------------------------------------------------
(* The refinement: StageKey begins an abstract lock, CommitKey commits it,   *)
(* a restored key undoes it, and every step that leaves the keys alone can   *)
(* only touch files.                                                         *)

Exposed    == {f \in Reachable : disk[f] = "plain"}
Overlooked == {f \in Files : <<"refresh", f>> \in silent}

(* A step that changes no key is an abstract Touch.                          *)
LEMMA KeepingKeysIsTouch ==
  ASSUME IInv, UNCHANGED key, \A r \in Rings \ key : r \in locking' <=> r \in locking
  PROVE  Abstract!Next
<1>1. [r \in Rings |-> RingState(r)]' = [r \in Rings |-> RingState(r)]
  BY DEF RingState
<1>2. Exposed' \subseteq Files /\ Overlooked' \subseteq Files
  BY DEF Exposed, Overlooked, Reachable
<1>3. QED
  BY <1>1, <1>2 DEF Abstract!Next, Abstract!Touch, Exposed, Overlooked

(* A step that adds one key undoes a lock, unlocks a locked ring, or neither. *)
LEMMA AddingKeyIsUndoOrUnlock ==
  ASSUME IInv, NEW r \in Rings, key' = key \cup {r},
         locking' = locking \/ locking' = locking \ {r},
         UNCHANGED <<disk, attached, Overlooked>>
  PROVE  Abstract!Next
<1>1. CASE r \in key
  BY <1>1, KeepingKeysIsTouch
<1>2. CASE r \notin key
  <2> DEFINE state == [s \in Rings |-> RingState(s)]
  <2>1. state' = [state EXCEPT ![r] = "unlocked"]
    BY DEF RingState
  <2>2. state[r] = "locking" \/ state[r] = "locked"
    BY <1>2 DEF RingState
  <2>3. UNCHANGED <<Exposed, Overlooked>>
    BY DEF Exposed, Reachable
  <2>4. QED
    BY <2>1, <2>2, <2>3 DEF Abstract!Next, Abstract!Undo, Abstract!Unlock, Exposed, Overlooked
<1>3. QED
  BY <1>1, <1>2

(* Staging the key is only reached with no key staged.                      *)
LEMMA StageKeyIsBegin ==
  ASSUME IInv, StageKey
  PROVE  Abstract!Next
<1> DEFINE state == [s \in Rings |-> RingState(s)]
<1>1. cmd.ring \in Rings /\ cmd.ring \in key /\ locking = {}
  BY DEF IInv, CoreInv, TypeOK, Commands, MarkerInv, StageKey, Journaling
<1>2. \A s \in Rings : state[s] # "locking"
  BY <1>1 DEF RingState
<1>3. state[cmd.ring] = "unlocked"
  BY <1>1 DEF RingState
<1>4. state' = [state EXCEPT ![cmd.ring] = "locking"]
  BY <1>1 DEF StageKey, RingState
<1>5. UNCHANGED <<Exposed, Overlooked>>
  BY DEF StageKey, Exposed, Overlooked, Reachable
<1>6. QED
  BY <1>1, <1>2, <1>3, <1>4, <1>5 DEF Abstract!Next, Abstract!Begin, Exposed, Overlooked

(* Unlinking the staged key is only reached when nothing is left decrypted.  *)
LEMMA CommitKeyIsCommit ==
  ASSUME IInv, CommitKey
  PROVE  Abstract!Next
<1> DEFINE state == [s \in Rings |-> RingState(s)]
<1>1. cmd.ring \in Rings /\ cmd.ring \notin key /\ cmd.ring \in locking
  BY DEF IInv, CoreInv, TypeOK, Commands, MarkerInv, CommitKey, Deciding, Staged
<1>2. state[cmd.ring] = "locking"
  BY <1>1 DEF RingState
<1>3. Exposed \cap RingFiles(cmd.ring) \subseteq Overlooked
  BY <1>1 DEF IInv, CoreInv, PhaseInv, RefreshInv, SparseInv, Targets, Staged, CommitKey,
              Exposed, Overlooked, Reachable
<1>4. state' = [state EXCEPT ![cmd.ring] = "locked"]
  BY <1>1 DEF CommitKey, RingState
<1>5. UNCHANGED <<Exposed, Overlooked>>
  BY DEF CommitKey, Exposed, Overlooked, Reachable
<1>6. QED
  BY <1>1, <1>2, <1>3, <1>4, <1>5 DEF Abstract!Next, Abstract!Commit, Exposed, Overlooked

(* LockTransaction implements AtomicLock.                                    *)
THEOREM Refinement == Spec => ImplementsAtomicLock
<1>1. Init => Abstract!Init
  BY DEF Init, Abstract!Init, RingState, Reachable
<1>2. IInv /\ [Next]_vars => [Abstract!Next]_<<[r \in Rings |-> RingState(r)],
                                               {f \in Reachable : disk[f] = "plain"},
                                               {f \in Files : <<"refresh", f>> \in silent}>>
  <2> SUFFICES ASSUME IInv, Next
               PROVE  Abstract!Next
    BY DEF vars, RingState, Reachable
  <2>1. cmd.ring \in Rings
    BY DEF IInv, CoreInv, TypeOK, Commands
  <2>2. ASSUME NEW op \in Ops, NEW r \in Rings, NEW force \in BOOLEAN,
               Start(op, r, force)
        PROVE  Abstract!Next
    BY <2>2, KeepingKeysIsTouch DEF Start
  <2>3. ASSUME NEW r \in Rings, RecoverRingRestoringKey(r)
        PROVE  Abstract!Next
    <3>1. Overlooked = {}
      BY <2>3 DEF IInv, CoreInv, PhaseInv, Startup, RecoverRingRestoringKey, Overlooked
    <3>2. silent' \subseteq silent \cup ({"recovery"} \X Files)
      BY <2>3 DEF RecoverRingRestoringKey, Return, Reachable
    <3>3. Overlooked' = {}
      BY <3>1, <3>2 DEF Overlooked
    <3>4. QED
      BY <2>3, <3>1, <3>3, AddingKeyIsUndoOrUnlock DEF RecoverRingRestoringKey
  <2>4. CASE Recovery
    BY <2>3, <2>4, KeepingKeysIsTouch
       DEF Recovery, RecoverRingWithoutMarker, RecoverRingWithBoth,
           DropStaleJournal, FinishRecovery
  <2>5. CASE Replay
    BY <2>5, KeepingKeysIsTouch
       DEF Replay, SkipEntry, OverlookEntry, RemoveEntry, RestoreEntry, RestoreEntryFails,
           FinishReplay
  <2> USE DEF Overlooked
  <2>6. CASE Body
    BY <2>1, <2>6, KeepingKeysIsTouch, AddingKeyIsUndoOrUnlock, StageKeyIsBegin,
       CommitKeyIsCommit
       DEF Body, Refuse, LockCheck, LockWithoutKey, CreateJournal, SyncJournal,
           UnlockSaveKey, UnlockCheck, CommitJournal, Rollback
  <2>7. CASE Refresh
    BY <2>7, KeepingKeysIsTouch
       DEF Refresh, SkipWorktree, RefreshWorktree, RemoveFile, CheckoutFile,
           CheckoutFileFails, RefreshFails, FinishRefresh
  <2>8. CASE Environment
    BY <2>8, KeepingKeysIsTouch, AddingKeyIsUndoOrUnlock
       DEF Environment, Crash, UserEdits, UserCommits, MoveWorktree,
           RefresherStart, RefresherSave, RefresherGivesUp
  <2>9. QED
    BY <2>2, <2>4, <2>5, <2>6, <2>7, <2>8 DEF Next, CommandStep
<1>3. QED
  BY Invariance, <1>1, <1>2, PTL DEF Spec, ImplementsAtomicLock, Abstract!Spec
=============================================================================
