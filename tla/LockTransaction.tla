--------------------------- MODULE LockTransaction ---------------------------
(***************************************************************************)
(* The crash-safe `lock` transaction of git-agecrypt, the `unlock` command *)
(* that undoes it, and the startup recovery that every command runs first. *)
(*                                                                         *)
(* The state is what the commands leave on disk: per ring, whether         *)
(* repo.key and repo.key.locking exist; the write-ahead log lock.journal;  *)
(* and the contents of every tracked secret in every linked worktree.  A   *)
(* command runs alone, because it holds recovery.lock from its startup     *)
(* recovery to its end, but it may be killed between any two steps, git    *)
(* may fail under it, and the user edits files while it runs.              *)
(*                                                                         *)
(* Most of what git says is taken as it comes: of `git status` and `git    *)
(* ls-files` only the output is read, never the exit status, and a failing *)
(* unlink is ignored.  A failure of that kind is silent: the command goes  *)
(* on as if git had nothing to tell of the files concerned.                *)
(***************************************************************************)
EXTENDS Naturals, FiniteSets

CONSTANTS
  Worktrees,    \* linked worktrees, the main one included
  Paths,        \* repository-relative paths of tracked secrets
  Rings,        \* recipient rings, the default ring included
  RingOf,       \* the ring whose filter is assigned to a path
  Sparse,       \* files whose index entry has SKIP_WORKTREE set
  Ops,          \* the commands users run
  Pulled,       \* rings whose repo.pub a pull may replace
  Outages,      \* the files a failing git ls-files may keep back at a time
  MaxCrashes,   \* bound on kills and on errors returned without a rollback
  MaxFaults,    \* bound on steps in which git or an unlink fails
  MaxEdits,     \* bound on uncommitted edits by the user
  MaxMoves      \* bound on worktrees becoming unreachable or reachable

Files == Worktrees \X Paths

ASSUME RingsType == Rings # {}
ASSUME RingOfType == RingOf \in [Paths -> Rings]
ASSUME SparseType == Sparse \subseteq Files
ASSUME OpsType == Ops \subseteq {"lock", "unlock", "status"}
ASSUME PulledType == Pulled \subseteq Rings
ASSUME OutagesType == {} \in Outages /\ Outages \subseteq SUBSET Files
ASSUME BoundsType == /\ MaxCrashes \in Nat /\ MaxFaults \in Nat
                     /\ MaxEdits \in Nat   /\ MaxMoves \in Nat

VARIABLES
  key,        \* rings whose repo.key exists
  locking,    \* rings whose repo.key.locking exists
  jstate,     \* lock.journal: absent, created but not synchronised, or valid
  jentries,   \* the files a valid journal lists
  disk,       \* contents of each secret in its worktree
  attached,   \* worktrees whose directory and .git are reachable
  pc,         \* the step the running command is about to take
  cmd,        \* the command that holds recovery.lock
  startup,    \* the command is still in startup recovery
  ringsLeft,  \* rings the recovery loop has not visited
  sawLocking, \* any_locking_found of the recovery loop
  wts,        \* worktrees the refresh loop has not visited
  todo,       \* files the current loop has not visited
  inflight,   \* files removed and not yet checked out again
  lateEdits,  \* files edited since the command last looked for dirty files
  refresher,  \* rings with a filter process about to save a refreshed key
  silent,     \* history: the files on which a question of the running command
              \* has silently failed, each with that question
  crashes, faults, edits, moves

keyVars     == <<key, locking>>
journalVars == <<jstate, jentries>>
localVars   == <<startup, ringsLeft, sawLocking, wts, todo, inflight, silent>>
envVars     == <<attached, refresher>>
otherCounts == <<crashes, edits, moves>>
counters    == <<otherCounts, faults>>
vars == <<key, locking, jstate, jentries, disk, attached, pc, cmd, startup,
          ringsLeft, sawLocking, wts, todo, inflight, lateEdits, refresher,
          silent, crashes, faults, edits, moves>>

(* "plain" is the decrypted committed version, "edited" an uncommitted       *)
(* plaintext, "empty" a file git had created but not yet filled.             *)
Content  == {"plain", "edited", "cipher", "empty", "missing"}
Commands == [op : {"lock", "unlock", "status"}, ring : Rings, force : BOOLEAN]
PcValues == {"idle", "recover", "dropJournal", "replay", "resmudge", "run",
             "lock", "journal", "stage", "unlockCheck", "refresh", "remove",
             "checkout", "commit", "commitJournal", "rollback"}

(* What a command asks git and takes the answer for complete: which files   *)
(* are dirty, which ones the journal and the refresh have to cover, which   *)
(* ones recovery has to look at.                                            *)
Questions == {"status", "journal", "refresh", "recovery"}

RingFiles(r)   == {f \in Files : RingOf[f[2]] = r}
FilesOf(w)     == {f \in Files : f[1] = w}
Reachable      == {f \in Files : f[1] \in attached}

(* git status reports a file as modified unless cleaning it gives the index *)
(* blob back: the ciphertext itself passes through the clean filter.        *)
Dirty(r, ws)   == {f \in RingFiles(r) : /\ f[1] \in ws
                                        /\ f \notin Sparse
                                        /\ disk[f] \in {"edited", "empty", "missing"}}

(* What checkout-index writes: the smudge filter without a key passes the   *)
(* ciphertext through.                                                      *)
Smudged(f)     == IF RingOf[f[2]] \in key THEN "plain" ELSE "cipher"

(* The silent failures of one step, which count as one fault.               *)
Silence(answers) ==
  /\ silent' = silent \cup answers
  /\ IF answers = {}
     THEN UNCHANGED counters
     ELSE faults < MaxFaults /\ faults' = faults + 1 /\ UNCHANGED otherCounts

-----------------------------------------------------------------------------
Init ==
  /\ key \in SUBSET Rings
  /\ locking = {}
  /\ jstate = "none" /\ jentries = {}
  /\ attached = Worktrees
  /\ disk = [f \in Files |-> IF f \in Sparse THEN "missing" ELSE Smudged(f)]
  /\ pc = "idle"
  /\ cmd = [op |-> "status", ring |-> CHOOSE r \in Rings : TRUE, force |-> FALSE]
  /\ startup = FALSE /\ ringsLeft = {} /\ sawLocking = FALSE
  /\ wts = {} /\ todo = {} /\ inflight = {} /\ lateEdits = {}
  /\ refresher = {} /\ silent = {}
  /\ crashes = 0 /\ faults = 0 /\ edits = 0 /\ moves = 0

(* A repository in which a release without the journal was killed in the    *)
(* middle of a lock: the staged key is there, lock.journal is not.          *)
LegacyInit ==
  /\ key = {} /\ locking \in {{r} : r \in Rings}
  /\ jstate = "none" /\ jentries = {}
  /\ attached = Worktrees
  /\ disk \in {d \in [Files -> Content] : \A f \in Sparse : d[f] = "missing"}
  /\ pc = "idle"
  /\ cmd = [op |-> "status", ring |-> CHOOSE r \in Rings : TRUE, force |-> FALSE]
  /\ startup = FALSE /\ ringsLeft = {} /\ sawLocking = FALSE
  /\ wts = {} /\ todo = {} /\ inflight = {} /\ lateEdits = {}
  /\ refresher = {} /\ silent = {}
  /\ crashes = 0 /\ faults = 0 /\ edits = 0 /\ moves = 0

(* The command returns: its guard is dropped and its locals are gone.       *)
Return ==
  /\ pc' = "idle"
  /\ startup' = FALSE /\ ringsLeft' = {} /\ sawLocking' = FALSE
  /\ wts' = {} /\ todo' = {} /\ inflight' = {} /\ silent' = {}

-----------------------------------------------------------------------------
(* Startup recovery, under the guard acquire_recovery_lock has just taken.  *)

(* Mutant: recovery only looks at the command's own ring.                   *)
StartOwnRingOnly(op, r, force) ==
  /\ pc = "idle"
  /\ pc' = "recover"
  /\ cmd' = [op |-> op, ring |-> r, force |-> force]
  /\ startup' = TRUE /\ ringsLeft' = {r}
  /\ lateEdits' = {}
  /\ UNCHANGED <<keyVars, journalVars, disk, envVars, counters, sawLocking,
                 wts, todo, inflight, silent>>

Start(op, r, force) ==
  /\ pc = "idle"
  /\ pc' = "recover"
  /\ cmd' = [op |-> op, ring |-> r, force |-> force]
  /\ startup' = TRUE /\ ringsLeft' = Rings
  /\ lateEdits' = {}
  /\ UNCHANGED <<keyVars, journalVars, disk, envVars, counters, sawLocking,
                 wts, todo, inflight, silent>>

(* Mutant: the loop does not advance.                                       *)
RecoverRingAgain(r) ==
  /\ pc = "recover" /\ r \in ringsLeft /\ r \notin locking
  /\ UNCHANGED vars

(* One iteration of the loop over ring state directories.                   *)
RecoverRingWithoutMarker(r) ==
  /\ pc = "recover" /\ r \in ringsLeft /\ r \notin locking
  /\ ringsLeft' = ringsLeft \ {r}
  /\ UNCHANGED <<keyVars, journalVars, disk, envVars, counters, pc, cmd,
                 startup, sawLocking, wts, todo, inflight, silent, lateEdits>>

RecoverRingWithBoth(r) ==
  /\ pc = "recover" /\ r \in ringsLeft /\ r \in locking /\ r \in key
  /\ locking' = locking \ {r}
  /\ sawLocking' = TRUE
  /\ ringsLeft' = ringsLeft \ {r}
  /\ pc' = "dropJournal"
  /\ UNCHANGED <<key, journalVars, disk, envVars, counters, cmd, startup,
                 wts, todo, inflight, silent, lateEdits>>

(* Mutant: the stale marker is removed and its journal left behind.         *)
KeepStaleJournal ==
  /\ pc = "dropJournal"
  /\ pc' = "recover"
  /\ UNCHANGED <<journalVars, keyVars, disk, envVars, counters, cmd, localVars,
                 lateEdits>>

DropStaleJournal ==
  /\ pc = "dropJournal"
  /\ jstate' = "none" /\ jentries' = {}
  /\ pc' = "recover"
  /\ UNCHANGED <<keyVars, disk, envVars, counters, cmd, localVars, lateEdits>>

(* The staged key is renamed back; a journal that does not parse makes the  *)
(* command fail here, and a missing one makes it scan every worktree, or    *)
(* those files of it that git lists.                                        *)
RecoverRingRestoringKey(r) ==
  /\ pc = "recover" /\ r \in ringsLeft /\ r \in locking /\ r \notin key
  /\ key' = key \cup {r}
  /\ locking' = locking \ {r}
  /\ \/ /\ jstate = "torn"
        /\ Return /\ UNCHANGED counters
     \/ /\ jstate # "torn"
        /\ sawLocking' = TRUE
        /\ ringsLeft' = ringsLeft \ {r}
        /\ pc' = "replay"
        /\ UNCHANGED <<startup, wts, inflight>>
        /\ \/ /\ jstate = "valid" /\ todo' = jentries
              /\ UNCHANGED <<silent, counters>>
           \/ /\ jstate = "none"
              /\ \E lost \in Outages :
                   /\ todo' = Reachable \ lost
                   /\ Silence({"recovery"} \X (Reachable \cap lost))
  /\ UNCHANGED <<journalVars, disk, envVars, cmd, lateEdits>>

(* After the loop: a journal no marker accounts for is discarded when some  *)
(* ring has its key, and refused otherwise.                                 *)
FinishRecovery ==
  /\ pc = "recover" /\ ringsLeft = {}
  /\ \/ /\ sawLocking \/ jstate = "none"
        /\ pc' = "run" /\ startup' = FALSE
        /\ UNCHANGED <<journalVars, ringsLeft, sawLocking, wts, todo, inflight, silent>>
     \/ /\ ~sawLocking /\ jstate = "valid" /\ key # {}
        /\ jstate' = "none" /\ jentries' = {}
        /\ pc' = "run" /\ startup' = FALSE
        /\ UNCHANGED <<ringsLeft, sawLocking, wts, todo, inflight, silent>>
     \/ /\ ~sawLocking
        /\ jstate = "torn" \/ (jstate = "valid" /\ key = {})
        /\ Return
        /\ UNCHANGED journalVars
  /\ UNCHANGED <<keyVars, disk, envVars, counters, cmd, lateEdits>>

-----------------------------------------------------------------------------
(* replay_lock_journal_or_selective: the journal's entries or, when there   *)
(* is no journal, every tracked file of every reachable worktree.           *)

Scanning == jstate = "none"
Damaged(f) == f[1] \in attached /\ disk[f] \in {"cipher", "empty"}

(* Mutant: a damaged entry may be passed by.                                *)
SkipAnyEntry(f) ==
  /\ pc = "replay" /\ f \in todo
  /\ todo' = todo \ {f}
  /\ UNCHANGED <<keyVars, journalVars, disk, envVars, counters, pc, cmd,
                 startup, ringsLeft, sawLocking, wts, inflight, silent, lateEdits>>

(* An empty file found by the scan counts only when its modification time   *)
(* is within 60 s of the marker's, so the scan may also pass it by.         *)
SkipEntry(f) ==
  /\ pc = "replay" /\ f \in todo
  /\ \/ ~Damaged(f)
     \/ Scanning /\ disk[f] = "empty"
  /\ todo' = todo \ {f}
  /\ UNCHANGED <<keyVars, journalVars, disk, envVars, counters, pc, cmd,
                 startup, ringsLeft, sawLocking, wts, inflight, silent, lateEdits>>

(* A file that cannot be opened, or whose staged size git does not tell,    *)
(* counts as sound.                                                         *)
OverlookEntry(f) ==
  /\ pc = "replay" /\ f \in todo /\ Damaged(f)
  /\ Silence({<<"recovery", f>>})
  /\ todo' = todo \ {f}
  /\ UNCHANGED <<keyVars, journalVars, disk, envVars, pc, cmd, startup,
                 ringsLeft, sawLocking, wts, inflight, lateEdits>>

(* The scan ignores a failing unlink; the replay returns its error (Crash). *)
RemoveEntry(f) ==
  /\ pc = "replay" /\ f \in todo /\ Damaged(f)
  /\ todo' = todo \ {f}
  /\ \/ disk' = [disk EXCEPT ![f] = "missing"] /\ UNCHANGED <<silent, counters>>
     \/ Scanning /\ Silence({<<"recovery", f>>}) /\ UNCHANGED disk
  /\ inflight' = {f}
  /\ pc' = "resmudge"
  /\ UNCHANGED <<keyVars, journalVars, envVars, cmd, startup, ringsLeft,
                 sawLocking, wts, lateEdits>>

(* git leaves a file alone that was not removed and matches its index entry. *)
RestoreEntry(f) ==
  /\ pc = "resmudge" /\ f \in inflight
  /\ \/ disk' = [disk EXCEPT ![f] = Smudged(f)]
     \/ <<"recovery", f>> \in silent /\ UNCHANGED disk
  /\ inflight' = {}
  /\ pc' = "replay"
  /\ UNCHANGED <<keyVars, journalVars, envVars, counters, cmd, startup,
                 ringsLeft, sawLocking, wts, todo, silent, lateEdits>>

(* checkout-index fails: the replay returns the error and keeps the journal, *)
(* the scan ignores it.                                                     *)
RestoreEntryFails ==
  /\ pc = "resmudge" /\ faults < MaxFaults
  /\ faults' = faults + 1
  /\ IF Scanning
     THEN /\ pc' = "replay" /\ inflight' = {}
          /\ UNCHANGED <<startup, ringsLeft, sawLocking, wts, todo, silent>>
     ELSE Return
  /\ UNCHANGED <<keyVars, journalVars, disk, envVars, cmd, lateEdits, otherCounts>>

(* Startup recovery goes on with the next ring; a rollback returns the      *)
(* error that caused it.                                                    *)
FinishReplay ==
  /\ pc = "replay" /\ todo = {}
  /\ jstate' = "none" /\ jentries' = {}
  /\ IF startup
     THEN pc' = "recover" /\ UNCHANGED localVars
     ELSE Return
  /\ UNCHANGED <<keyVars, disk, envVars, counters, cmd, lateEdits>>

-----------------------------------------------------------------------------
(* The body of `status`, and of a command that refuses: an active Git       *)
(* operation, a secret held open, no matching identity, a failed check.     *)
Refuse ==
  /\ pc = "run"
  /\ Return
  /\ UNCHANGED <<keyVars, journalVars, disk, envVars, counters, cmd, lateEdits>>

(* Mutant: uncommitted edits do not stop a lock without --force.            *)
UnreachableWarnings == Files \ Reachable

(* What stops a lock without --force, if git tells of it: dirty secrets in  *)
(* any worktree, and worktrees that cannot be reached.                      *)
LockWarnings == Dirty(cmd.ring, attached) \cup (Files \ Reachable)

LockCheck ==
  /\ pc = "run" /\ cmd.op = "lock"
  /\ IF cmd.force THEN UNCHANGED <<silent, counters>>
                  ELSE Silence({"status"} \X LockWarnings)
  /\ lateEdits' = {}
  /\ pc' = "lock"
  /\ UNCHANGED <<keyVars, journalVars, disk, envVars, cmd, startup, ringsLeft,
                 sawLocking, wts, todo, inflight>>

LockWithoutKey ==
  /\ pc = "lock" /\ cmd.ring \notin key
  /\ wts' = attached
  /\ pc' = "refresh"
  /\ UNCHANGED <<keyVars, journalVars, disk, envVars, counters, cmd, startup,
                 ringsLeft, sawLocking, todo, inflight, silent, lateEdits>>

(* transactional_lock: the files git lists, and finds to be of the ring, are *)
(* what the journal will hold.                                              *)
CreateJournal ==
  LET targets == RingFiles(cmd.ring) \cap Reachable IN
  /\ pc = "lock" /\ cmd.ring \in key
  /\ jstate' = "torn" /\ jentries' = {}
  /\ \E lost \in Outages :
       /\ todo' = targets \ lost
       /\ Silence({"journal"} \X (targets \cap lost))
  /\ pc' = "journal"
  /\ UNCHANGED <<keyVars, disk, envVars, cmd, startup, ringsLeft, sawLocking,
                 wts, inflight, lateEdits>>

(* Mutant: only the secrets that differ from the index are journalled.      *)
SyncDirtyJournal ==
  /\ pc = "journal"
  /\ jstate' = "valid" /\ jentries' = {f \in todo : disk[f] # "plain"}
  /\ todo' = {}
  /\ pc' = "stage"
  /\ UNCHANGED <<keyVars, disk, envVars, counters, cmd, startup, ringsLeft,
                 sawLocking, wts, inflight, silent, lateEdits>>

SyncJournal ==
  /\ pc = "journal"
  /\ jstate' = "valid" /\ jentries' = todo
  /\ todo' = {}
  /\ pc' = "stage"
  /\ UNCHANGED <<keyVars, disk, envVars, counters, cmd, startup, ringsLeft,
                 sawLocking, wts, inflight, silent, lateEdits>>

StageKey ==
  /\ pc = "stage"
  /\ key' = key \ {cmd.ring}
  /\ locking' = locking \cup {cmd.ring}
  /\ wts' = attached
  /\ pc' = "refresh"
  /\ UNCHANGED <<journalVars, disk, envVars, counters, cmd, startup, ringsLeft,
                 sawLocking, todo, inflight, silent, lateEdits>>

(* Mutant: unlock writes repo.key into every ring's state directory.        *)
UnlockEveryRing ==
  /\ pc = "run" /\ cmd.op = "unlock"
  /\ key' = Rings
  /\ pc' = "unlockCheck"
  /\ UNCHANGED <<locking, journalVars, disk, envVars, counters, cmd, localVars,
                 lateEdits>>

UnlockSaveKey ==
  /\ pc = "run" /\ cmd.op = "unlock"
  /\ key' = key \cup {cmd.ring}
  /\ pc' = "unlockCheck"
  /\ UNCHANGED <<locking, journalVars, disk, envVars, counters, cmd, localVars,
                 lateEdits>>

(* Without --force one dirty secret that git tells of, in any worktree,     *)
(* skips every checkout.                                                    *)
UnlockCheck ==
  /\ pc = "unlockCheck"
  /\ \/ /\ ~cmd.force /\ Dirty(cmd.ring, attached) # {}
        /\ Return
        /\ UNCHANGED <<counters, lateEdits>>
     \/ /\ IF cmd.force THEN UNCHANGED <<silent, counters>>
                        ELSE Silence({"status"} \X Dirty(cmd.ring, attached))
        /\ wts' = attached
        /\ lateEdits' = {}
        /\ pc' = "refresh"
        /\ UNCHANGED <<startup, ringsLeft, sawLocking, todo, inflight>>
  /\ UNCHANGED <<keyVars, journalVars, disk, envVars, cmd>>

-----------------------------------------------------------------------------
(* refresh_all_worktrees: every secret of the ring is removed from a        *)
(* worktree before git checks any of them out again.  `lock` passes         *)
(* force = true here, so only `unlock` looks for dirty files once more.     *)

LooksAgain == cmd.op = "unlock" /\ ~cmd.force

(* A worktree that has gone, or where git tells of a dirty secret.          *)
SkipWorktree(w) ==
  /\ pc = "refresh" /\ w \in wts
  /\ w \notin attached \/ (LooksAgain /\ Dirty(cmd.ring, {w}) # {})
  /\ wts' = wts \ {w}
  /\ UNCHANGED <<keyVars, journalVars, disk, envVars, counters, pc, cmd, startup,
                 ringsLeft, sawLocking, todo, inflight, silent, lateEdits>>

(* The files to refresh are those git lists: none of the worktree, and the  *)
(* refresh goes on to the next one, when its ls-files fails.                *)
RefreshWorktree(w) ==
  LET secrets == (RingFiles(cmd.ring) \cap FilesOf(w)) \ Sparse
      dirty   == IF LooksAgain THEN Dirty(cmd.ring, {w}) ELSE {}
  IN
  /\ pc = "refresh" /\ w \in wts \cap attached
  /\ wts' = wts \ {w}
  /\ \E lost \in Outages :
       /\ todo' = secrets \ lost
       /\ Silence(({"refresh"} \X (secrets \cap lost)) \cup ({"status"} \X dirty))
       /\ pc' = IF secrets \subseteq lost THEN "refresh" ELSE "remove"
  /\ lateEdits' = IF cmd.op = "unlock" THEN lateEdits \ FilesOf(w) ELSE lateEdits
  /\ UNCHANGED <<keyVars, journalVars, disk, envVars, cmd, startup, ringsLeft,
                 sawLocking, inflight>>

(* A failing unlink is ignored and leaves the file where it is.             *)
RemoveFile(f) ==
  /\ pc = "remove" /\ f \in todo
  /\ \/ disk' = [disk EXCEPT ![f] = "missing"] /\ UNCHANGED <<silent, counters>>
     \/ Silence({<<"refresh", f>>}) /\ UNCHANGED disk
  /\ todo' = todo \ {f}
  /\ inflight' = inflight \cup {f}
  /\ pc' = IF todo = {f} THEN "checkout" ELSE "remove"
  /\ UNCHANGED <<keyVars, journalVars, envVars, cmd, startup, ringsLeft,
                 sawLocking, wts, lateEdits>>

(* git leaves a file alone that was not removed and matches its index entry. *)
CheckoutFile(f) ==
  /\ pc = "checkout" /\ f \in inflight
  /\ \/ disk' = [disk EXCEPT ![f] = Smudged(f)]
     \/ <<"refresh", f>> \in silent /\ UNCHANGED disk
  /\ inflight' = inflight \ {f}
  /\ pc' = IF inflight = {f} THEN "refresh" ELSE "checkout"
  /\ UNCHANGED <<keyVars, journalVars, envVars, counters, cmd, startup,
                 ringsLeft, sawLocking, wts, todo, silent, lateEdits>>

(* checkout-index and the `git checkout HEAD` fallback, whose status is     *)
(* ignored, both fail for f.                                                *)
CheckoutFileFails(f) ==
  /\ pc = "checkout" /\ f \in inflight /\ faults < MaxFaults
  /\ faults' = faults + 1
  /\ inflight' = inflight \ {f}
  /\ pc' = IF inflight = {f} THEN "refresh" ELSE "checkout"
  /\ UNCHANGED <<keyVars, journalVars, disk, envVars, cmd, startup, ringsLeft,
                 sawLocking, wts, todo, silent, lateEdits, otherCounts>>

(* git cannot be spawned or waited for: the refresh returns an error, which *)
(* rolls a staged transaction back.                                         *)
RefreshFails ==
  /\ pc \in {"refresh", "checkout"} /\ faults < MaxFaults
  /\ faults' = faults + 1
  /\ IF cmd.ring \in locking
     THEN /\ pc' = "rollback"
          /\ wts' = {} /\ todo' = {} /\ inflight' = {}
          /\ UNCHANGED <<startup, ringsLeft, sawLocking, silent>>
     ELSE Return
  /\ UNCHANGED <<keyVars, journalVars, disk, envVars, cmd, lateEdits, otherCounts>>

(* Mutant: the lock commits without having visited every worktree.          *)
FinishRefreshEarly ==
  /\ pc = "refresh"
  /\ IF cmd.ring \in locking
     THEN pc' = "commit" /\ UNCHANGED localVars
     ELSE Return
  /\ UNCHANGED <<keyVars, journalVars, disk, envVars, counters, cmd, lateEdits>>

FinishRefresh ==
  /\ pc = "refresh" /\ wts = {}
  /\ IF cmd.ring \in locking
     THEN pc' = "commit" /\ UNCHANGED localVars
     ELSE Return
  /\ UNCHANGED <<keyVars, journalVars, disk, envVars, counters, cmd, lateEdits>>

CommitKey ==
  /\ pc = "commit"
  /\ locking' = locking \ {cmd.ring}
  /\ pc' = "commitJournal"
  /\ UNCHANGED <<key, journalVars, disk, envVars, counters, cmd, localVars,
                 lateEdits>>

CommitJournal ==
  /\ pc = "commitJournal"
  /\ jstate' = "none" /\ jentries' = {}
  /\ Return
  /\ UNCHANGED <<keyVars, disk, envVars, counters, cmd, lateEdits>>

Rollback ==
  /\ pc = "rollback"
  /\ key' = key \cup {cmd.ring}
  /\ locking' = locking \ {cmd.ring}
  /\ todo' = jentries
  /\ pc' = "replay"
  /\ UNCHANGED <<journalVars, disk, envVars, counters, cmd, startup, ringsLeft,
                 sawLocking, wts, inflight, silent, lateEdits>>

-----------------------------------------------------------------------------
(* The process is killed, or returns an error from a step that has no       *)
(* rollback.  A file git was writing may be left empty, and a journal that  *)
(* was never synchronised may hold none, some or all of its lines.          *)
Crash ==
  /\ pc # "idle" /\ crashes < MaxCrashes
  /\ crashes' = crashes + 1
  /\ Return
  /\ \/ UNCHANGED disk
     \/ /\ pc \in {"checkout", "resmudge"}
        /\ \E f \in inflight : disk' = [disk EXCEPT ![f] = "empty"]
  /\ \/ UNCHANGED journalVars
     \/ /\ pc = "journal"
        /\ jstate' = "valid"
        /\ \E written \in SUBSET todo : jentries' = written
  /\ UNCHANGED <<keyVars, envVars, cmd, lateEdits, faults, edits, moves>>

(* An editor saves a file: it takes no part in recovery.lock.               *)
UserEdits(f) ==
  /\ f[1] \in attached /\ f \notin Sparse /\ edits < MaxEdits
  /\ edits' = edits + 1
  /\ disk' = [disk EXCEPT ![f] = "edited"]
  /\ lateEdits' = lateEdits \cup {f}
  /\ UNCHANGED <<keyVars, journalVars, envVars, pc, cmd, localVars, crashes,
                 faults, moves>>

(* The user commits an edit between commands.                               *)
UserCommits(f) ==
  /\ pc = "idle" /\ f[1] \in attached /\ disk[f] = "edited"
  /\ disk' = [disk EXCEPT ![f] = "plain"]
  /\ UNCHANGED <<keyVars, journalVars, envVars, counters, pc, cmd, localVars,
                 lateEdits>>

(* A removable drive with a linked worktree comes or goes.                  *)
MoveWorktree(w) ==
  /\ moves < MaxMoves
  /\ moves' = moves + 1
  /\ attached' = IF w \in attached THEN attached \ {w} ELSE attached \cup {w}
  /\ attached' # {}
  /\ UNCHANGED <<keyVars, journalVars, disk, refresher, pc, cmd, localVars,
                 lateEdits, crashes, faults, edits>>

(* A smudge filter that found repo.key older than repo.pub has unwrapped    *)
(* the new key; it saves it when it gets recovery.lock, without running     *)
(* recovery, or gives up after the lock's timeout.                          *)
RefresherStart(r) ==
  /\ r \in key \cap Pulled /\ r \notin refresher
  /\ refresher' = refresher \cup {r}
  /\ UNCHANGED <<keyVars, journalVars, disk, attached, counters, pc, cmd,
                 localVars, lateEdits>>

RefresherSave(r) ==
  /\ pc = "idle" /\ r \in refresher
  /\ key' = key \cup {r}
  /\ refresher' = refresher \ {r}
  /\ UNCHANGED <<locking, journalVars, disk, attached, counters, pc, cmd,
                 localVars, lateEdits>>

RefresherGivesUp(r) ==
  /\ r \in refresher
  /\ refresher' = refresher \ {r}
  /\ UNCHANGED <<keyVars, journalVars, disk, attached, counters, pc, cmd,
                 localVars, lateEdits>>

-----------------------------------------------------------------------------
Recovery ==
  \/ \E r \in Rings : \/ RecoverRingWithoutMarker(r)
                      \/ RecoverRingWithBoth(r)
                      \/ RecoverRingRestoringKey(r)
  \/ DropStaleJournal
  \/ FinishRecovery

Replay ==
  \/ \E f \in Files :
       SkipEntry(f) \/ OverlookEntry(f) \/ RemoveEntry(f) \/ RestoreEntry(f)
  \/ RestoreEntryFails
  \/ FinishReplay

Body ==
  \/ Refuse \/ LockCheck \/ LockWithoutKey \/ CreateJournal \/ SyncJournal \/ StageKey
  \/ UnlockSaveKey \/ UnlockCheck
  \/ CommitKey \/ CommitJournal \/ Rollback

Refresh ==
  \/ \E w \in Worktrees : SkipWorktree(w) \/ RefreshWorktree(w)
  \/ \E f \in Files : RemoveFile(f) \/ CheckoutFile(f) \/ CheckoutFileFails(f)
  \/ RefreshFails
  \/ FinishRefresh

CommandStep == Recovery \/ Replay \/ Body \/ Refresh

Environment ==
  \/ Crash
  \/ \E f \in Files : UserEdits(f) \/ UserCommits(f)
  \/ pc = "idle" /\ \E w \in Worktrees : MoveWorktree(w)
  \/ \E r \in Rings : RefresherStart(r) \/ RefresherSave(r) \/ RefresherGivesUp(r)

Next ==
  \/ \E op \in Ops, r \in Rings, force \in BOOLEAN :
       Start(op, r, force)
  \/ CommandStep
  \/ Environment

Spec == Init /\ [][Next]_vars

(* The same with startup recovery of a transaction of the older release.    *)
LegacySpec == LegacyInit /\ [][Next]_vars

(* Drives also come and go while a command runs, from either start.         *)
RacyNext == Next \/ \E w \in Worktrees : MoveWorktree(w)
RacySpec == (Init \/ LegacyInit) /\ [][RacyNext]_vars

(* A command that holds recovery.lock keeps running until it returns or is  *)
(* killed; nothing obliges anyone to start one.                             *)
FairSpec == Spec /\ WF_vars(CommandStep)
-----------------------------------------------------------------------------
CountersOK == crashes \in Nat /\ faults \in Nat /\ edits \in Nat /\ moves \in Nat

TypeOK ==
  /\ key \subseteq Rings /\ locking \subseteq Rings
  /\ jstate \in {"none", "torn", "valid"} /\ jentries \subseteq Files
  /\ disk \in [Files -> Content]
  /\ attached \subseteq Worktrees
  /\ pc \in PcValues /\ cmd \in Commands
  /\ startup \in BOOLEAN /\ ringsLeft \subseteq Rings /\ sawLocking \in BOOLEAN
  /\ wts \subseteq Worktrees /\ todo \subseteq Files /\ inflight \subseteq Files
  /\ lateEdits \subseteq Files /\ refresher \subseteq Rings
  /\ silent \subseteq Questions \X Files
  /\ CountersOK

(* A command's own work never starts on top of an interrupted transaction:  *)
(* once startup recovery is over no staged key and no journal is left, in   *)
(* any ring (acquire_recovery_lock runs recovery before it returns).        *)
BodyStartsClean == pc = "run" => locking = {} /\ jstate = "none"

(* At most one ring has a staged key, so the one shared lock.journal can    *)
(* only belong to that ring.                                                *)
OneTransaction ==
  /\ \A r, s \in locking : r = s
  /\ jstate = "valid" => \A r \in locking \ key : jentries \subseteq RingFiles(r)

(* Write-ahead: while a ring's key is staged, no step removes one of its    *)
(* secrets or replaces it by ciphertext unless a synchronised journal       *)
(* already lists that file (transactional_lock before refresh).  Git is     *)
(* asked twice, for the journal and for the refresh: what it silently kept  *)
(* back from the journal alone is lost to recovery.                         *)
WriteAhead ==
  [][\A f \in Files :
       /\ RingOf[f[2]] \in locking \ key
       /\ disk'[f] # disk[f] /\ disk'[f] \in {"missing", "cipher", "empty"}
       => jstate = "valid" /\ (f \in jentries \/ <<"journal", f>> \in silent)]_vars

(* Uncommitted plaintext is only ever overwritten by a command run with     *)
(* --force, or when it was saved after the command looked for dirty files   *)
(* or git status failed unnoticed: startup recovery and rollback never      *)
(* touch it.                                                                *)
EditsSurvive ==
  [][\A f \in Files :
       disk[f] = "edited" /\ disk'[f] # "edited" =>
         \/ pc = "idle"
         \/ f \in lateEdits
         \/ <<"status", f>> \in silent /\ pc \in {"remove", "checkout"}
         \/ cmd.force /\ ~startup /\ pc \in {"remove", "checkout"}]_vars

(* The journal a replay discards has been worked off: none of the files it  *)
(* lists is still ciphertext or truncated in a reachable worktree, but for  *)
(* those it could not open or learn the staged size of.                     *)
ReplayLeavesNoDamage ==
  [][pc = "replay" /\ jstate = "valid" /\ jstate' = "none" =>
       \A f \in jentries : Damaged(f) => <<"recovery", f>> \in silent]_vars

(* Without a journal the scan leaves no ciphertext of an unlocked ring in   *)
(* any reachable worktree, though checkout-index may fail there unnoticed,  *)
(* but what git did not list, or the scan could not open or unlink.         *)
ScanLeavesNoCiphertext ==
  [][pc = "replay" /\ Scanning /\ pc' = "recover" =>
       \A f \in Reachable :
         disk[f] = "cipher" /\ RingOf[f[2]] \in key => <<"recovery", f>> \in silent]_vars

(* Ring isolation: what a command does after startup recovery leaves the    *)
(* key, the staged key and the secrets of every other ring alone.           *)
OtherRingsUntouched ==
  [][pc # "idle" /\ ~startup =>
       \A r \in Rings \ {cmd.ring} :
         /\ r \in key <=> r \in key'
         /\ r \in locking <=> r \in locking'
         /\ \A f \in RingFiles(r) : disk'[f] \in {disk[f], "edited"}]_vars

(* Every command returns, whatever the interleaving of its steps with edits *)
(* and filters: no loop of recovery, replay or refresh runs for ever.       *)
CommandReturns == pc # "idle" ~> pc = "idle"

(* The abstract lock this module implements: a ring is unlocked while       *)
(* repo.key exists, locking while only repo.key.locking does.               *)
RingState(r) == IF r \in key THEN "unlocked"
                ELSE IF r \in locking THEN "locking" ELSE "locked"

Abstract == INSTANCE AtomicLock WITH
              state <- [r \in Rings |-> RingState(r)],
              exposed <- {f \in Reachable : disk[f] = "plain"},
              overlooked <- {f \in Files : <<"refresh", f>> \in silent}

(* The key of a ring disappears in one step, when no decrypted secret of it *)
(* is left in a reachable worktree, but those the refresh was not told of or *)
(* could not unlink; crashes before that step undo the lock.                *)
ImplementsAtomicLock == Abstract!Spec
-----------------------------------------------------------------------------
(* What the documents say of recovery and the code does not keep.           *)

(* Recovery never gives up on a well-formed journal: whatever the crash, a  *)
(* later command finds the old or the new valid state (spec-guarantees).    *)
RecoveryNeverRefuses ==
  ~(/\ pc = "recover" /\ ringsLeft = {} /\ ~sawLocking
    /\ jstate = "valid" /\ key = {})

(* lock.journal is removed only after every entry has been recovered: what  *)
(* recovery discards as a journal from before the key was staged lists no   *)
(* damaged file (format-spec 9.2).                                          *)
DiscardedJournalWasUnused ==
  [][pc = "recover" /\ jstate = "valid" /\ jstate' = "none" =>
       \A f \in jentries : ~Damaged(f)]_vars

(* repo.key next to repo.key.locking means that the lock or unlock had      *)
(* completed, so that its journal can be deleted unread (format-spec 9.2).  *)
BothKeysMeanCompleted ==
  pc = "recover" =>
    \A r \in ringsLeft \cap locking \cap key :
      \A f \in RingFiles(r) : ~Damaged(f)

(* After a replay the old valid state is back: every file the journal lists *)
(* exists again in its worktree (spec-guarantees, self-healing recovery).   *)
ReplayRestoresFiles ==
  [][pc = "replay" /\ jstate = "valid" /\ jstate' = "none" =>
       \A f \in jentries \ Sparse : f[1] \in attached => disk[f] # "missing"]_vars

(* The staged key is unlinked once all worktrees have succeeded, so with no *)
(* decrypted secret of the ring in any of them (format-spec 8).             *)
AllWorktreesEncryptedAtCommit ==
  [][\A r \in locking \ key :
       r \notin locking' \cup key' =>
         \A f \in RingFiles(r) \cap Reachable : disk[f] # "plain"]_vars
=============================================================================
