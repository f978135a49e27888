# git-agecrypt in TLA+

This directory is a verification project for `git-agecrypt`, a Git filter that
keeps files encrypted with [age](https://age-encryption.org) in a repository and
decrypted in its worktrees. Every definition is a translation of the Rust code
under `src/src/`; `PROJECT.json` names the lines each one stands for. TLC checks
small instances, and TLAPS proves the central theorems for every value of the
constants.

Paths below such as `git.rs:1739` mean `src/src/git.rs` line 1739.

## The system and its parts

A repository has one or more *rings* of recipients. A ring has an x25519 master
identity. The public half (`repo.pub`) and one envelope per recipient
(`*.age`, the secret half encrypted to that recipient) are committed; the secret
half (`repo.key`) lies in `.git/git-agecrypt/` while the ring is *unlocked*.
`.gitattributes` assigns a `git-agecrypt` filter to each secret path; Git runs the
tool's `clean` filter to encrypt and its `smudge` filter to decrypt.

| Component | State | Operations | Interacts with |
|---|---|---|---|
| Lock transaction and unlock (`git.rs` 1026-1311, 1739-1863, 3390-3651; `main.rs` 1338-1523) | `repo.key`, `repo.key.locking` per ring, the shared `lock.journal`, secrets in every linked worktree | `lock`, `unlock`, startup recovery, replay, legacy scan, worktree refresh | Git (`checkout-index`, `checkout`), smudge filter, every other command through startup recovery |
| Rekey transaction (`main.rs` 643-975; `git.rs` 1410-1624) | `rekey.journal`, `rekey.backup/`, `rekey.staging/`, `repo.pub`, envelopes, `repo.key`, the index | `rekey`, rollback or completion in startup recovery | clean filter through `git add --renormalize`, auto-refresh, pulls |
| `recovery.lock` (`git.rs` 454-586) | an flock on a path that may be replaced | acquire with timeout, release | every command that changes state, and filters |
| Auto-refresh and `refresh.lock` (`git.rs` 1871-2087) | `repo.key` older than `repo.pub`, `refresh.lock` | `try_auto_refresh_master_key_for_ring` | smudge, clean, textconv; `recovery.lock` |
| Clean and smudge filters, ciphertext cache (`crypto.rs` 332-949; `main.rs` 1699-1899) | cached ciphertext per content hash; the index blob | clean, smudge, textconv, prune, clear | Git, lock and rekey, which clear the cache |
| Recipients and key life cycle (`main.rs` 241-599, 994-1336) | envelopes, `repo.pub`, `repo.key` | init, add-recipient, remove-recipient, rewrap | rekey, unlock |
| Commit and push enforcement (`git.rs` 2557-3266; `format.rs` 1424-2153) | the commit graph, the rules at each commit | pre-commit, pre-push, pre-receive checks | Git hooks, inspect |
| Merge driver (`merge.rs`) | base, ours, theirs | three-way merge, conflict markers, semantic conflicts | clean/smudge, Git merge |
| Shield and hooks (`shield.rs`) | managed blocks of hook files | install, remove | enforcement |
| Format, inspect, export (`format.rs` 102-1408) | none of its own | parse, validate, report | all |
| GitHub key lookup, command line, `run` | none that outlives the call | one request; argument parsing; child environment | add-recipient |

### What is hard, and what correct means

*Lock transaction.* `lock` must destroy the only local copy of the key and every
decrypted file of a ring, in several worktrees, through child processes of Git
that may fail, and may be killed between any two steps. It is correct if (a) no
secret is destroyed before a synchronised journal lists it, (b) recovery never
overwrites what the user has not committed, (c) a journal is only thrown away
when the files it lists are whole, (d) the key disappears only when nothing
decrypted is left within reach, (e) one ring's transaction leaves the others
alone, although they share one journal, and (f) a command always returns.

*Rekey transaction.* Three kinds of metadata (envelopes, `repo.pub`, `repo.key`)
must switch generation together, and the index must follow; the rollback is
itself a sequence of steps that may be killed. It is correct if the old
generation can be restored until the new one is complete, if after recovery all
three agree, and if the index is never left encrypted to a generation whose
secret half is gone.

*recovery.lock.* At most one holder, whatever replaces the file while processes wait; no
call waits for ever; a dead process never keeps others out.

*Auto-refresh.* A filter replaces a stale `repo.key` by the key in its envelope. One filter
at a time should do so; it must not change the key under a command, wait for ever for the
command that waits for it, or leave something behind that keeps the key stale.

*Filters and cache.* Filters run many at a time and without a lock. Plaintext must come
out encrypted, to the generation in force, and say the same when it is decrypted; an
unchanged file should come out as the blob the index has (no spurious diffs), in
whatever state other filters and commands leave the cache.

*Recipients.* An envelope always wraps the generation `repo.pub` names; a name collision
never overwrites an envelope.

*Enforcement.* What reaches the server while it enforces is encrypted where its own rules
say so, whatever other pushes and deletions do meanwhile; the hook of a clone inspects
every commit it sends that no other remote has, however old its view of the server is.

*Merge driver.* The driver reports success only for the merge of both sides, replaces
the file as a whole or not at all, and line endings alone make no conflict.

`PROJECT.json` lists under "hazards" each of these at the line where it bites.

## Order and composition

What other parts rest on was modelled first: the two transactions, the filters every
commit goes through, then the lock all of them take, the refresh that runs on top of it, and
the parts that decide what leaves a clone.

| Component | Abstract specification | Modules |
|---|---|---|
| Lock transaction | `AtomicLock` | `LockTransaction`, `LockInvariant`, `LockTransaction_proofs`, `MCLock` |
| Rekey transaction | `AtomicRekey` | `RekeyTransaction`, `RekeyInvariant`, `RekeyBackup`, `RekeyTransaction_proofs`, `RekeyBackup_proofs`, `MCRekey` |
| Filters and cache | `AtomicFilters` | `Filters`, `FiltersInvariant`, `Filters_proofs`, `MCFilters` |
| `recovery.lock` | `AtomicMutex` | `RecoveryLock`, `RecoveryLock_proofs`, `MCRecoveryLock` |
| Auto-refresh | takes `recovery.lock` by `AtomicMutex` | `AutoRefresh`, `AutoRefresh_proofs`, `MCAutoRefresh` |
| Enforcement | its invariants | `Enforcement`, `Enforcement_proofs`, `MCEnforcement` |
| Merge driver | `AtomicMerge` | `MergeDriver`, `MergeDriver_proofs`, `MCMergeDriver` |

`RecoveryLock` implements `AtomicMutex`; the other models rely on the specification and not
on the implementation. `AutoRefresh` instantiates it and uses `Take` and `Give` as the
steps by which filters and commands enter and leave. `LockTransaction` and
`RekeyTransaction` use it in its simplest form: one command at a time. The filter that
refreshes a key is a process with steps in `AutoRefresh`, one late step (`RefresherSave`)
in the two transactions, and a choice in `Filters`.

A next step would be `Recipients` (init, names and collisions, rewrap over several rings).

## Lock transaction

| Module | Contents |
|---|---|
| `AtomicLock` | the abstract specification: a ring is unlocked, locking or locked, and becomes locked in one step |
| `LockTransaction` | the code: startup recovery, replay, scan, `lock`, `unlock`, refresh, kills and the environment; its properties |
| `LockInvariant` | the inductive invariant `IInv` in named parts, the part `CoreInv` of it that survives drives coming and going at any time, and the variant of a command |
| `LockTransaction_proofs` | theorems |
| `MCLock` | values for TLC |

### State and actions

| Variable | In the program |
|---|---|
| `key`, `locking` | the rings for which `repo.key` / `repo.key.locking` exists |
| `jstate`, `jentries` | `lock.journal`: absent, created but not synchronised ("torn"), valid with these entries |
| `disk` | the contents of each secret in each worktree: the committed version decrypted, an uncommitted edit, ciphertext, truncated, missing |
| `attached` | worktrees whose directory and `.git` are present (removable drives) |
| `pc`, `cmd`, `startup`, `ringsLeft`, `sawLocking`, `wts`, `todo`, `inflight` | the running command and the local variables of its loops |
| `lateEdits` | history: files the user saved since the command last looked for dirty files |
| `silent` | history: what git has kept from the running command without the command noticing, by question (the dirty check, the journal's list, the refresh's list, recovery) and file |
| `refresher` | rings for which a smudge filter has unwrapped a newer key and waits for `recovery.lock` |
| `crashes`, `faults`, `edits`, `moves` | counters for the bounds |

A command holds `recovery.lock` from its startup recovery to its return
(`RecoveryLockGuard`, `git.rs:454`), so one command runs at a time: `Start` needs
`pc = "idle"`, and `RefresherSave`, which takes the same lock, does too. That this
is justified is what `RecoveryLock` shows. Editors, drives and other
filters do not take the lock and interleave with every step.

- *Startup recovery* (`git.rs:1048-1131`): `RecoverRing...` are the three cases of one
  loop iteration, `DropStaleJournal` the deletion of the journal that follows a stale
  marker, `FinishRecovery` the treatment of a journal without any marker.
- *Replay and scan* (`git.rs:1137-1311`): `SkipEntry`, `OverlookEntry`, `RemoveEntry`, `RestoreEntry`,
  `RestoreEntryFails`, `FinishReplay`. With a journal the loop visits its entries,
  without one every file of every reachable worktree.
- *Lock* (`main.rs:1446-1523`, `git.rs:1739-1863`): `LockCheck` is the checks,
  `CreateJournal` and `SyncJournal` are separate because a kill in between leaves a
  torn journal, then `StageKey`, the refresh, and `CommitKey` and `CommitJournal`, or
  `Rollback`. `LockWithoutKey` is `lock` on a locked ring.
- *Unlock* (`main.rs:1338-1444`): `UnlockSaveKey`, `UnlockCheck`, the refresh.
- *Refresh* (`git.rs:3390-3651`): per worktree, every secret is removed before Git checks
  the first one out: `RefreshWorktree`, `RemoveFile`, `CheckoutFile`,
  `CheckoutFileFails`, `RefreshFails`.
- *Crash* is a kill at any step, and the return from a step whose error has no rollback.

*Failures nobody looks at.* Of several child processes the code reads the output and not the
exit status, and it ignores some failing unlinks: `git status` (`git.rs:3271`), `git ls-files`
for the journal (`git.rs:1773`), the refresh (`git.rs:3408`) and the scan (`git.rs:1237`), the
removal of a secret in the refresh (`git.rs:3475`) and in the scan (`git.rs:1290`), reading an
entry of a replay (`git.rs:1158-1170`). A failing `git status` counts as clean, a failing
`ls-files` as a worktree without secrets, and the command goes on. The models keep this:
`Silence` takes the answers that were lost into `silent` and counts one fault, `Outages` are the
sets of files that one failing `ls-files` can keep back (a whole worktree in `lock` and
`lock_legacy`, any files in `lock_rings`). So a lock *can* commit with plaintext left in a
worktree, journal less than it refreshes, or overwrite edits without `--force`; each property
says for which files, and TLC and the proofs show that it is no others:

| Property | Except |
|---|---|
| `WriteAhead` | files git left out of the journal's list |
| `EditsSurvive` | files `git status` did not tell of, and only in the refresh that follows |
| `ReplayLeavesNoDamage` | entries that could not be opened or whose staged size git did not tell |
| `ScanLeavesNoCiphertext` | files `ls-files` left out, or that could not be opened or unlinked |
| `ImplementsAtomicLock` | files the refresh was not told of or could not unlink (`overlooked` in `AtomicLock`) |

### What the runs show

| Run | Bounds | Shows |
|---|---|---|
| `lock` | 1 ring, 2 worktrees, 2 paths, one file outside the sparse checkout, 2 kills, 1 failure of Git (reported or silent), 1 edit, 1 move | recovery leaves neither marker nor journal; the invariant `IInv`, types included; write-ahead; edits survive; replay leaves no damage; refinement of `AtomicLock` |
| `lock_rings` | 1 worktree, 2 rings with one path each, 2 kills, 1 failure, 1 edit | one staged ring at a time; other rings untouched; under `FairSpec` every command returns |
| `lock_legacy` | 1 path, 2 worktrees, 1 kill, 1 failure, 1 edit, 1 move, started in a repository an older release left without a journal, with any contents | edits survive, no ciphertext of an unlocked ring is left |
| `lock_refused` | the smallest in which it happens | a counterexample to what the documents say; see *Findings* |

Why these bounds are enough: a second kill is needed to interrupt recovery itself,
and a third finds the state a second can leave; two worktrees are needed for a
refresh to fail or pass over one after changing the other, and two paths for a kill
between two files of one worktree. One edit, one failure and one move reach
every branch that tests for them; the proofs below lift the bounds for
everything but liveness, of which they show the variant.

*Fairness.* `lock_rings` assumes `WF_vars(CommandStep)`: a process that holds
`recovery.lock` keeps running until it returns or is killed. Nothing obliges users to
start commands, editors to save or filters to finish. No liveness is claimed of a
command that a child process of Git keeps waiting for ever.

### Findings

- `lock_refused`: a completed lock unlinks the staged key, then the journal
  (`git.rs:1823-1830`). Killed in between and with no other ring unlocked, every later
  command, `unlock` included, refuses to discard the journal (`git.rs:1110`).
- `DiscardedJournalWasUnused`: recovery renames the staged key back before it replays the journal;
  killed or failing during the replay, the next recovery sees a key and no marker and
  discards the journal with files still encrypted.

TLC must find the property of `lock_refused` violated; `PROJECT.json` quotes the sentence it
contradicts. For the other see *Further counterexamples*.

### What is proved

`LockTransaction_proofs` proves for any sets of worktrees, paths and rings and any
bounds, from the assumptions of `LockTransaction` (`RingsType`, `RingOfType`,
`SparseType`, `OpsType`, `PulledType`, `BoundsType`, `OutagesType`: types of the constants, and at
least one ring):

| Theorem | States | Of |
|---|---|---|
| `Invariance` | `[]IInv` | `Spec`, `LegacySpec` |
| `CoreInvariance` | `[]CoreInv` | `RacySpec` |
| `TypeCorrect` | `[]TypeOK` | all three |
| `StartsClean` | `[]BodyStartsClean` | all three |
| `SingleTransaction` | `[]OneTransaction` | all three |
| `EditsAreKept` | `EditsSurvive` | all three |
| `RingIsolation` | `OtherRingsUntouched` | all three |
| `JournalFirst` | `WriteAhead` | `Spec`, `LegacySpec` |
| `ReplayIsComplete` | `ReplayLeavesNoDamage` | `Spec`, `LegacySpec` |
| `ScanIsComplete` | `ScanLeavesNoCiphertext` | `Spec`, `LegacySpec` |
| `CommandAdvances` | every step of a command makes its variant smaller (`Closer`) | states with `CoreInv` |
| `NothingSetsItBack` | no step of anybody makes it larger while a command runs | all three |
| `Refinement` | `ImplementsAtomicLock` | `Spec` |

`LegacySpec` starts where a release without the journal was killed in the middle of a lock
of any ring, with any contents in the worktrees. `RacySpec` starts there or in a fresh
repository, and lets drives with worktrees come and go between any two steps of a command,
where `Spec` and `LegacySpec` let them move between commands only.

None of the properties is inductive. `WriteAhead` speaks of the step that removes a file, which
relies on the journal written several steps earlier, so the invariant must carry what the
journal contains through every step between (`JournalInv` and `TargetInv`: from `StageKey` to
the commit it lists exactly the ring's reachable secrets but those in `silent`). `Refinement`
needs at the commit that no secret is left decrypted, so `RefreshInv` says for every point of
the loop which files have been dealt with or overlooked. `EditsSurvive` needs `EditInv`:
whatever is edited among the targets was edited after the dirty check or in a file it was
not told of. `MarkerInv` says where in
the command a staged key can exist, which makes the shared journal belong to one ring;
`ReplayInv` that a replay works with the keys of all its entries in place and what it has passed
is whole; `ScanInv` the same of the scan, which has no journal to work off and whose ignored
failures are in `silent`; `RingInv` that loops keep to the command's ring; `SparseInv` that
files outside the sparse checkout are never touched; `LoopInv` that a loop under way has
something left to do; `PhaseInv` ties the local variables to the steps. The proof of each part
goes action by action; the theorems about steps (`[][A]_vars`) are then proved from the
invariant for each action, and the temporal steps are left to PTL.

`CoreInv` is the part that mentions no reachable worktree, and it is inductive by itself. So
what `RacySpec` breaks is exactly what compares two readings of the reachable worktrees
(`git.rs:3638` reads them again): the journal may miss a worktree that came back before the
refresh (`WriteAhead`), a replay may pass a file whose drive is away (`ReplayLeavesNoDamage`),
and the key may go while a drive holds plaintext (the refinement). TLC finds each of these
under `RacySpec`. One staged ring, clean starts, isolation of rings and the edits of the user
do not depend on where drives are.

The variant is the tuple (`Phase`, `ringsLeft`, `wts`, `Visit`, `todo`, `inflight`) in
lexicographic order: numbers bounded by 8 and 2, and sets that only lose members, so with
finitely many rings, worktrees and files no loop of recovery, replay or refresh runs for
ever. That is the safety part of `CommandReturns`. What is left to TLC is that a running
command always can take a step (`ENABLED`) and that it does (`WF_vars(CommandStep)`).

Only model-checked: `CommandReturns` (liveness) and the counterexamples.

## Rekey transaction

| Module | Contents |
|---|---|
| `AtomicRekey` | the abstract specification: a rotation is one step, taken with the current key at hand, to a newer generation |
| `RekeyTransaction` | the code: backup, journal, activation, staging, rollback or completion in startup recovery, kills and failing steps; the other commands as single steps; the environment; the properties |
| `RekeyInvariant` | the inductive invariant `IInv` in named parts |
| `RekeyBackup` | what the invariant becomes as long as no rollback is interrupted while it deletes its backup, and with one kill at most |
| `RekeyTransaction_proofs`, `RekeyBackup_proofs` | theorems |
| `MCRekey` | values for TLC |

### State and actions

A key is modelled by its *generation*, a number; 0 is "no key", "no envelope" or "not
known". Two keys are told apart by their generations and nothing else.

| Variable | In the program |
|---|---|
| `pub`, `env`, `key` | the generation `repo.pub` names, each file in `keys/` wraps, `repo.key` holds |
| `pending`, `target` | `rekey.journal` exists; the generation in its `new_recipient` line (0 while the file has no content) |
| `saved`, `old` | which entries of `rekey.backup` still exist; the metadata copied there |
| `disk`, `index`, `staged` | each secret in the worktree (decrypted, edited, ciphertext), the generation its index entry is encrypted to, whether that entry differs from HEAD |
| `head`, `history` | metadata of the last commit; generations an own envelope in some commit opens, which is where `rewrap` looks for keys |
| `refresher` | the generation a filter has unwrapped and waits to save |
| `newest` | history: the last generation created by anyone |
| `unlisted` | history: the secrets `git ls-files` kept from the rotation under way |
| `pc`, `cmd`, `todo` | the running command, its step and the rest of its loop |

- *Startup recovery* (`git.rs:1410-1624`): `RecoverCompleted`, `RecoverRefuses`, or the
  rollback `RestorePub`, `RestoreEnvelope`, `StartPruning`, `PruneFile`, `RestoreKey`.
  `RestoreKey` includes the verification; of what it compares only `repo.key` and
  `repo.pub` can differ in the model, because files read back as written.
- *Deleting the backup*: `remove_dir_all` takes entries one at a time in any order
  (`PurgePart`), a directory after its contents, and may fail or be killed. It happens
  before a rotation, after one, and after either kind of recovery.
- *rekey* (`main.rs:643-975`): one action per step between two crash points of the code,
  two for the journal (created, synchronised), one per envelope. The staging directory
  is left out: nothing reads it after a kill. `WrapFails` is the validation error with its
  own clean-up; `StageFails` leaves journal and backup. `StageSecrets` stages what
  `git ls-files` lists: nobody reads its exit status (`main.rs:823`), and with an empty list
  `rekey` skips the staging, deletes journal and backup and reports success.
- *Other commands* are single steps: `Lock`, `Unlock`, `AddRecipient`, `RemoveRecipient`,
  `RewrapAll`, `Refuse`. What happens inside lock and unlock is the subject of
  `LockTransaction`. `Unlock` has the branch of the refresh that keeps decrypted files whose
  index entry is of an older key and renormalises the index (`git.rs:3442-3490`), for
  which `git add` may fail. `git status` may fail silently before both, as in
  `LockTransaction`. Silent failures count as faults (`Unnoticed`).
- *Environment*: a kill at any step; editors and `git add` at any time (the clean
  filter takes no lock); commits, under the pre-commit hook when `Hooked`, of what `Commits`
  says (secrets and metadata together or apart); pulls of
  a teammate's rotation, which Git refuses over modified metadata; filters that
  refresh a stale key.

### What the runs show

| Run | Bounds | Shows |
|---|---|---|
| `rekey` | 2 recipients, one of them on this machine, 1 other file in `keys/`, 3 generations, 2 kills, 1 failing step, all commands but rewrap | the invariant; commands start from metadata of one generation; refinement of `AtomicRekey` |
| `rekey_one_kill` | 2 secrets, 2 recipients, both this user's, who never removes his last envelope (`KeepingSpec`), 3 generations, 1 kill, no `--force`, metadata committed alone or with the secrets | the invariant `OneKillInv`; the key in force stays in reach; worktree ciphertext and committed index entries stay readable; a rollback deletes nothing that was there |
| `rekey_outside` | 1 secret, 1 pull or refresh, 1 kill, 1 failing step (reported or silent), `--force` throughout, commits of any parts | write-ahead; a successful rekey has staged everything `git ls-files` told it of |

Why these bounds are enough: two recipients make a kill between two envelopes
possible and leave one envelope that this machine cannot open; two rotations let the
second start from whatever the first left; the second kill interrupts the recovery
from the first. `rekey` has no secrets because the metadata do not depend on them;
`rekey_one_kill` has two, so that staging can stop between them. The proofs lift
the bounds on recipients, files and generations for everything, and the bound on kills for
all but `SecretsStayReadable`, which more than one kill breaks (see *What is proved*).

No liveness is claimed: every loop of a rotation runs through a finite set once, and
the fairness would be that of `lock_rings`.

### Findings

- `RollbackKeepsFiles` with two kills: the rollback deletes every file in `keys/` that has no
  counterpart in the backup. When a kill interrupts the deletion of the backup after a rollback,
  the next recovery deletes the envelopes whose copies were already gone.
- `RewrapRestages`: when staging fails, `rekey` recommends `rewrap --all`, which skips decrypted
  files, the very ones that are left.

### What is proved

`RekeyTransaction_proofs` proves for any sets of recipients and files, any selection of
commands and any bounds, from `NamesType` (own recipients are recipients, names do not
clash), `OpsType` and `BoundsType`:

| Theorem | States |
|---|---|
| `TypeCorrect` | `[]TypeOK` |
| `Invariance` | `[]IInv` |
| `StartsConsistent` | `[]BodyConsistent` |
| `BackupFirst` | `WriteAhead` |
| `SuccessReencrypts` | `SuccessMeansReencrypted` |
| `Refinement` | `ImplementsAtomicRekey`, assuming `MaxOutside = 0` |

`BodyConsistent` is far from inductive: whether a rollback ends in one generation depends
on what the backup held when the rotation began and on how much of it is left.
`PhaseInv` says at which steps journal and backup exist; `OrderInv` that the target is
newer than everything saved, so that "repo.pub and repo.key are the target" really tells a
complete rotation from an interrupted one; `ReplaceInv` and `RestoreInv` how
far the two loops have come, envelope by envelope; `ConsistencyInv` that outside a
rotation there is one generation and within one at most two, and that whenever `repo.key`
may have to be put back the backup still has it. The last is what makes a rollback
from a half-deleted backup end consistently, with envelopes missing but none of a
foreign generation. `Refinement` maps the generation in force to `old.pub` while a
rotation can be rolled back and to `repo.pub` otherwise; it changes in the one step
`SaveKey`. `StagedInv` carries what `StageSecrets` did past the edits and the `git add`s
that follow.

`RekeyBackup_proofs` proves the three properties of `rekey_one_kill`. Without any one of the
assumptions TLC finds the property in question violated, in `MCRekeyOneKill.cfg` with one
secret and the constant or the specification changed:

| Theorem | States | Assuming |
|---|---|---|
| `RollbackDeletesNothing` | `SteadySpec => RollbackKeepsFiles` | `Alone`, `Foreign = {}` |
| `KeyStaysInReach` | `SteadySpec /\ KeepingSpec => []KeyIsNeverLost` | `Alone` |
| `OneKillIsSteady` | `Spec => SteadySpec` | `OneKill` |
| `OneKillInvariant` | `ToldSpec => []OneKillInv` | `OneKill`, `Alone`, `Careful` |
| `CiphertextStaysReadable` | `ToldSpec => []SecretsStayReadable` | `OneKill`, `Alone`, `Careful` |

`SteadySpec` excludes one window: a kill or a failure while the deletion of a backup that a
rollback has restored is under way (`WindowClosed`, `git.rs:1612`). Everywhere else
any number of kills is allowed, the rollback's other steps included. With two kills under
plain `Spec`, TLC finds `KeyIsNeverLost` and `RollbackKeepsFiles` violated, and only through
that window, so the loss of envelopes has one cause: the backup is deleted entry by entry
before the journal that makes recovery use it. `WholeInv` is the argument: until the rollback is
through, either the whole backup is there or none of it is and `repo.pub` is the old one, so
that recovery refuses; `KeptInv` adds that a rotation gives and takes nobody's envelope.

`Alone` (`MaxOutside = 0`): no pull and no filter replaces a key. `KeepingSpec` restricts one
step (`OwnKept`): the user may remove any recipient, his own envelopes included, except the
last of his own. `Careful`: commits go through the pre-commit hook, secrets are not committed
without the metadata they were encrypted under, and no `--force`. `ToldSpec` also rules out
(`StatusAnswers`) that a lock or an unlock goes on over dirty secrets because `git status`
failed silently; every other failing step may be the one. In `rekey_one_kill`, which has a
kill and no failing step, it is the same as `KeepingSpec`; with a failing step in place of
the kill TLC finds no error under `ToldSpec`, and one under `KeepingSpec`: a lock that overlooks
staged secrets leaves them as ciphertext of a generation no commit has, which the next rotation
takes out of reach.

`SecretsStayReadable` covers ciphertext in the worktree and index entries that have been
committed. An entry that is staged and not committed is not covered, and can be unreadable: what
`git add` encrypted during a rotation that is rolled back is of a generation that is gone.
The worktree still has its plaintext, and while the ring is unlocked the pre-commit hook
stops the commit.

`CiphertextStaysReadable` needs `OneKill` and not only `SteadySpec`. With two kills and four
generations TLC finds: entries committed while a killed rotation was pending are
encrypted to the new generation, but the envelopes in that commit are rolled back; a second
rotation, killed before it stages anything and recovered as complete, and a `lock`
then leave ciphertext no envelope in the history opens. `CommittedInv` says exactly
this: committed entries are of a committed generation, or the one kill was spent and they
are of the generation in force (`Anchor`). `CipherInv` extends it to ciphertext in the
worktree, and `KillInv` counts: recovery that finds a journal has used up the kill.

## Filters and cache

| Module | Contents |
|---|---|
| `AtomicFilters` | the abstract specification: filters that take plaintext and deliver the same plaintext, to the index or the worktree |
| `Filters` | the code: clean and smudge step by step, the cache, kills, and what replaces the files they read; the properties |
| `FiltersInvariant` | the inductive invariant `IInv` in named parts |
| `Filters_proofs` | theorems |
| `MCFilters` | values for TLC |

### State and actions

A ciphertext is a record of its generation, its plaintext and a number for the randomness
age puts into it (0 if a teammate made it), so two encryptions of one plaintext differ.
`Magic` are plaintexts that begin like an age file and are none; `Damaged` stands for age
files whose authentication fails.

| Variable | In the program |
|---|---|
| `pub`, `newest`, `key` | the generation of `repo.pub`, the last one created, the one of `repo.key` (0: none) |
| `cache` | the entry at `cache/<hash of repo.pub>/<HMAC of the plaintext under repo.key>.age`; a slot is a generation of `repo.pub`, one of the key, a plaintext |
| `work`, `index` | each secret in the worktree, the blob of its index entry |
| `pc`, `op`, `file`, `input` | the filter processes: the step, what Git runs it for (`git add`, `git status`, a checkout), the file, its standard input |
| `recipient`, `held`, `dir`, `staged`, `out` | what it has read: `repo.pub`, the key, `repo.pub` again for the directory, the staged blob; its output |
| `made`, `runs`, `events` | ciphertexts made here and counters for the bounds |
| `mixed` | history: some clean filter found another `repo.pub` at its second reading |

- *Clean* (`main.rs:1699-1769`, `crypto.rs:471-795`): `ReadPub`, `ReadKey`, `ReadDir` and
  `ReadStaged` are separate because nothing keeps the files still in between. Then
  `PassThrough`, `RefuseDamaged`, `CleanLocked` or `Probe`; after `Probe` the entry is
  opened again (`Serve`) or removed (`Purge`); `Reuse` looks at the staged blob; `Encrypt`
  makes a new ciphertext.
- *Smudge* (`main.rs:1771-1830`, `crypto.rs:809-927`): `ReadLocal` and `CheckStale` compare key
  and `repo.pub`. With a stale key the filter unwraps the current one and saves it later
  (`SaveRefreshed`), counts as locked, or takes the local key all the same because another
  filter has refreshed it or holds `refresh.lock` too long (`Reread`). `SmudgeThrough`,
  `Decrypt`, `SmudgeFails`.
- *Caching*: `Persist` looks whether there is an entry, `Rename` replaces whatever is
  there by then, `Prune` removes any entries of the directory (the code does it once in 32
  times and beyond 500 entries; which entries are oldest makes no difference to the
  properties).
- *Environment*: Git takes the output (`Finish`) or the process is killed; users edit;
  files and cache entries are damaged at rest; rekey, rollback, lock, unlock and pulls
  replace `repo.pub` and `repo.key` and remove the cache, each as a step of its own,
  so that a filter sees every intermediate state. The order in which the commands do it is
  not used: any order is allowed.

Git runs one command at a time that writes the index (`index.lock`), `git status` beside it.

### What the runs show

| Run | Bounds | Shows |
|---|---|---|
| `filters` | 2 processes, 1 file, 2 plaintexts (one begins like an age file), 2 generations, 2 ciphertexts made here, 1 of a teammate, 2 filters started, 2 events in the environment; any cache, index and key that earlier work leaves | the invariant `IInv`, types included; plaintext comes out encrypted (`CleanEncrypts`); to one generation (`OneGeneration`); no ciphertext is made that the index has (`NoNeedlessCiphertext`); refinement of `AtomicFilters` |

Why these bounds are enough: the initial states are what any number of earlier runs leave
in index and cache, so two filters are needed only to run beside each other, one of
them possibly writing the entry the other has checked. Two events put a rotation
and a lock, a refresh or a removal of the cache between any two steps. Two ciphertexts let
both filters miss and race in `Rename`. The proofs lift the bounds.
`CHECK_DEADLOCK FALSE`: when the bounds are used up and no filter runs, nothing need happen.

`OneGeneration` has a condition on purpose: when `repo.pub` is replaced between the two
readings of one filter, its ciphertext for the old recipient lands in the directory of the
new one, and later filters return it. The condition names exactly this window.

No liveness is claimed: filters have no loops and wait for nothing but `recovery.lock` and
`refresh.lock`, which is the subject of `AutoRefresh`.

### Findings

- `EmitsStagedBlob`: the documents say that a staged blob that decrypts to the input is
  returned as it is ("Index-First"). The code looks in the cache first
  (`crypto.rs:484`). After a `git add` that was killed once it had cached its ciphertext,
  or with the same plaintext in another file, an unchanged file comes out as another
  ciphertext and shows up as modified.

### What is proved

`Filters_proofs` proves for any files, plaintexts, ciphertexts elsewhere, processes and bounds,
from `MagicType`, `FilterBoundsType`, `ElsewhereType` and `ValuesDiffer` (no value is both
plaintext and ciphertext):

| Theorem | States |
|---|---|
| `TypeCorrect` | `[]TypeOK` |
| `Invariance` | `[]IInv` |
| `PlaintextIsEncrypted` | `[]CleanEncrypts` |
| `GenerationsDoNotMix` | `[]OneGeneration` |
| `StagedBlobIsFound` | `NoNeedlessCiphertext` |
| `Refinement` | `ImplementsAtomicFilters` |

`OneGeneration` is about a filter's output, which may be an entry that other filters wrote
under keys of their own; `GenerationInv` therefore bounds the entries of the slots in
which directory and key are of one generation, and follows a filter from its second reading
of `repo.pub` to its end. `CacheInv` says that entries are ciphertext of their slot's
plaintext, `StoreInv` that what is about to be written is, `OutputInv` that the output says
what the input says, `SearchInv` what is known at each step of the search, and `PhaseInv`
what has been read by then. `Refinement` hides keys, ciphertexts and the cache: an index
entry is mapped to its plaintext, the arrival at the end of a filter to the abstract
delivery, and `OutputInv` in the next state gives the value delivered.

## recovery.lock

| Module | Contents |
|---|---|
| `AtomicMutex` | the abstract specification: nobody inside, or one process |
| `RecoveryLock` | the code: one action per step of the loop in `acquire_recovery_lock_with_timeout`; kills, time, and what others do to the file; the properties and the inductive invariant |
| `RecoveryLock_proofs` | theorems |
| `MCRecoveryLock` | values for TLC |

### State and actions

`path` is the inode the name `recovery.lock` leads to (or none, or a symbolic link), `owner`
the kernel's table of flocks, `fd` what each process has open, `expired` whether its
timeout is over. The flock belongs to an inode; the name may lead elsewhere by the time the lock
is granted, and inode numbers come back when nobody uses them. `Open`, `OpenFails`,
`MeetsLink`, `TryLock`, `LockBusy`, `Verify` and `VerifyFails` are the branches of the loop
(`git.rs:494-585`); `Release` is the guard's drop, `Kill` closes the files of a process.
`Replace` removes the file or puts another one, or a link, in its place.

### What the run shows

`recovery_lock`: 3 processes, 4 inodes, 2 replacements, any number of kills. The inductive
invariant, the refinement of `AtomicMutex`, `AcquireReturns` and `BlockedByTheLiving`. Three
processes are one inside, one that waits at the same file and one that finds another;
four inodes let each have a file of its own while a fourth lies at the path.

The file of the process *inside* is not replaced in the run (`ReplacedWhileHeld = FALSE`).
With `TRUE` the refinement fails, and it has to: flock cannot protect a lock file from
somebody who replaces it, and the comment at `git.rs:444` promises no more than that a
replaced file is not trusted while one waits for it.

*Fairness*: `WF` of the steps of a process that waits, and of the clock. The process inside
need not leave. `AcquireReturns` is not obvious because the way back from `VerifyFails` tests no
deadline (`git.rs:559`, `565`): it holds because that way needs a replacement each time.

*Proved*, for any sets and bounds: `Invariance` (`IInv`), `Refinement`
(`ImplementsAtomicMutex`, assuming `~ReplacedWhileHeld`) and `NoDeadOwners`
(`BlockedByTheLiving`). That at most one process is inside is not inductive: two processes
could be inside with different inodes. `PathInv` says that whoever is inside has the file the
path names, `OwnerInv` that it owns its lock, so a second one would own the same.
`OneInsidePerFile` says what is left without that assumption: two processes are inside only
with different files open.

## Auto-refresh

| Module | Contents |
|---|---|
| `AutoRefresh` | the code: `try_auto_refresh_master_key_for_ring` step by step, commands by where they hold `recovery.lock` and run Git; kills, time, pulls; properties and inductive invariant |
| `AutoRefresh_proofs` | theorems |
| `MCAutoRefresh` | values for TLC |

### State and actions

Keys are generations: `pub`, `env` (one's own envelope), `key`, `newest`. `lockFile` is
`refresh.lock`: who made it, whether that process lives, whether the pid has been written,
whether it is older than five seconds. A filter goes through `check` (`Adopt`, `TryAgain`),
`Create` with `create_new`, `WritePid`, `Recheck`, `Expect`, `Unwrap`, `FilterTake` or
`FilterTimesOut`, `Save` or `SaveFails`, `DropGuard`, which removes `refresh.lock` by name; one
that meets the file goes through `Inspect`, perhaps `Break`, and waits until it loses patience.
`under` is the command whose Git runs the filter.

A command is `Begin`, `CommandTake`, `Sweep` (the end of startup recovery, `git.rs:1116`),
`Body` and `Return`; between them `RunGit` runs a filter and waits for it. What the
command does to the key is one step: its details are in the transactions.

### What the run shows

`auto_refresh`: 2 filters, 1 command whose Git runs 1 filter, 2 generations, 1 kill or key that cannot
be saved (`MaxFaults`). Two
filters are enough for one to break the file of the other and for the guard of the first to
remove the file of the second; two generations let a pull arrive between comparison and
saving. `CHECK_DEADLOCK FALSE`: nobody need do anything when the bounds are used up.

- `RefreshersExclusive`: one filter refreshes at a time, unless one was killed, could not save
  the key, or kept `refresh.lock` for more than five seconds. The exception is real: `Inspect`
  and `Break` are two steps and removal is by name, so a filter may remove the file that another
  one has just made in the place of the abandoned one, and a slow filter removes its successor's
  (`git.rs:1967`). Nothing worse follows, because the key is saved under `recovery.lock`.
- `CommandOwnsKey`: while Git runs for a command, `repo.key` does not change, although the
  filters under it would refresh it.
- `EverybodyReturns`: a filter under a command waits for the lock of the command that waits for
  it; its timeout ends that (`git.rs:2080`; 30 s per file, one after another).
- `StaleKeyIsRefreshed`: if users keep checking files out, the key does not stay stale.
  `<>[]Orphan` is excepted: a filter killed between creating `refresh.lock` and writing its pid
  leaves an empty file that `git.rs:1978-1997` never takes for abandoned (the age in the file's
  metadata is looked at only when it cannot be read), although the comment at `git.rs:1976` says
  "break stale or abandoned locks immediately". It goes away only when some command's startup
  recovery finds it older than ten seconds.

*Fairness*: `WF` of each filter, of each command, of the clock; `SF` of `LosePatience`, because
the loop comes back to that point again and again (`while start.elapsed() < 5 s`). Nobody
has to start, to pull or to be killed; the last property assumes that filters are started.

*Proved*, for any sets and bounds: `Invariance`, `OneRefresher`, `KeyBelongsToTheCommand` and
`UsesRecoveryLock` (`Mutex!Spec`): filters and commands, kills included, enter and leave
`recovery.lock` only as `AtomicMutex` allows, which `RecoveryLock_proofs` shows the code of the
lock to implement. `HolderInv` says who is inside `recovery.lock` at which step, `UnderInv` ties
a command that waits for Git to its filter, `FileInv` that without kills, failing saves and
delays `refresh.lock` is the file of the one filter that refreshes. Liveness is model-checked
only.

## Commit and push enforcement

| Module | Contents |
|---|---|
| `Enforcement` | commits, clones and a server; `check` in the commit hooks, `check --pre-push`, `check --pre-receive`; properties and inductive invariant |
| `Enforcement_proofs` | theorems |
| `MCEnforcement` | values for TLC |

### State and actions

A commit is a number with its content (a tree, the rules of its own `.gitattributes`, whether
the ring has its metadata), its ancestors, and what `git diff-tree` prints of it: the
difference from its only parent, nothing for a merge. `refs` are the branches of the server,
`onServer` what came with pushes that were applied, `have` and `tracking` the commits of each
clone and its tracking refs of this server, `elsewhere` the commits its tracking refs of other
remotes (forks, an upstream) reach, `push` what each pusher is pushing and how far it is.

- `Create` is git commit or git merge, under the hooks (`PassesPreCommit`,
  `git.rs:2557-2925`) or with `--no-verify`. The hooks look at what differs from HEAD under
  the rules of the worktree, which need not be those that are committed.
- `Send` is the pre-push hook (`git.rs:2929-3266`): `Listed` is the list of commits with its
  fallback to `rev-list -n 100`, `Inspections` what is left of it when `rev-list` or
  `diff-tree` fails unnoticed (`git.rs:3013`, `3039`), `PassesPrePush` what is asked of these
  commits and of the tip. For a new branch the list leaves out what *any* remote's tracking
  refs reach (`git.rs:2981`, `--not --remotes`).
- `VisitOther` is a fetch from another remote, or a push to it: its commits are in the clone
  and its tracking refs reach them.
- `Receive` is the pre-receive hook (`format.rs:1449-1589`): `Inspected`, `CommitClean` under
  the rules of each commit, `TipClean` for the tree of the tip. `Apply` is Git's
  compare-and-swap of the branch afterwards, so pushes cross.
- `SendDeletion`, `Fetch` (without pruning), and `Enforce`, the end of a rollout with
  `--report-only`.

### What the run shows

`enforcement`: 1 clone with hooks, 1 pusher without, 2 branches, 1 path, 3 commits of 3 kinds
(plaintext without a rule, plaintext under a rule, sealed), 2 pushes and any number of
deletions one at a time (`OneDeletionAtATime`), `rev-list -n 1`; with another remote, 2 commits
(`ShortWithOther`). Three commits make a merge of two lines of which one is already on
the server; two pushes cross; a deletion makes commits unreachable that come back as
"new". Branches are interchangeable (symmetry). One path is enough for these properties
because no hook relates two protected paths except for renames; the proofs lift all bounds.

- `HistoryClean`: whatever came to the server under enforcement is clean under its own
  rules, and so is the tree of each branch tip, although each commit is inspected at most
  while it is new and the refs change before the push is applied.
- `PushInspected`: the pre-push hook lists every commit that neither the server nor another
  remote of the clone has, if the clone has the commit the push replaces. The exception is the
  code's: whoever fetches from a fork and pushes that on to a new branch has no commit looked
  at, and neither has a clone whose `git diff-tree` fails.
- `CarefulHistory`: where hooks are not skipped and the rules do not change, every
  protected file of every commit is sealed (or empty), merges included, although each commit is
  only compared with the one before it.

What the hooks do not do, met while modelling them; the properties are stated accordingly:

- `git diff-tree` without `-m` or `-c` prints nothing for a merge. A merge in the middle of a
  push whose own tree has plaintext, removed again before the tip, passes both hooks, although
  `docs/server-enforcement.md:41` lists merge commits among what is inspected.
- The server calls `diff-tree` without `-M`, so its rename branch (`format.rs:1868`) never runs,
  although `docs/server-enforcement.md:19` says that renames to unprotected paths are blocked.
- When the clone does not have the commit a push replaces, `rev-list` fails, its status is not
  looked at, the list is empty, and only the foreign-key check of the tip is left
  (`git.rs:3013`).
- Commits of another remote count as inspected, whoever made them (`git.rs:2981`), although what
  that remote enforces is its own affair.

*Proved*, for any commits, branches, paths and bounds: `Invariance` (`IInv`), `CleanServer`,
`NothingMissed` and `CarefulClone`. `ClosedInv` says that histories are closed under ancestors,
which makes "reachable from some ref" a subset of what has been inspected; `CheckedInv` that a
push that passed the hook remains inspected while others are applied.

## Merge driver

| Module | Contents |
|---|---|
| `AtomicMerge` | the abstract specification: the file is replaced once or not at all, and success means it is the merge of both sides |
| `MergeDriver` | `cmd_merge` and `run_3way_merge` step by step, Git's three-way merge, sweeps and kills; properties and inductive invariant |
| `MergeDriver_proofs` | theorems |
| `MCMergeDriver` | values for TLC |

### State and actions

A text is a sequence of *regions*, the units Git merges; a region is what it says, its second
version if it is in conflict, and the number of carriage returns at its line ends. Bodies
include conflict markers that somebody committed and text that is not UTF-8. `Decrypt`,
`Inspect` (guards and line endings), `MergeFile`, `MergeFileDies`, `Judge`, `Seal`,
`ReplaceTarget` and `Return` are the code between its crash points (`merge.rs:155-366`);
`Fail` is every error, `Kill` a kill. `Sweep` is the startup recovery of some other command,
which removes `.tmp*` under the state directory (`git.rs:3655-3678`), `merge-spool`
included, while the driver runs: the driver takes no lock. `Strip`, `AddCr`, `UsesCrlf`,
`HasMarkers` and `Unreadable` translate the helpers; `ThreeWay` is what `git merge-file`
does with one region (external).

### What the run shows

`merge`: all triples of 19 versions of two regions, of which the detection of CRLF sees the
first, with 0 to 2 carriage returns, markers of usual and unusual size, with sweeps and
a kill at every step. `CHECK_DEADLOCK FALSE`: the driver ends.

- `ImplementsAtomicMerge`: the driver returns 0 only if %A is the text that has the changes of both
  sides, with the line endings of ours, whatever is swept from under it, and %A
  is never partly written.
- `NoFalseConflict`: an undisturbed merge of plain texts whose sides agree is not called
  a conflict because of line endings.

Two regions suffice because a region does not influence another one except through the
detection of CRLF and through what is read before an unreadable line, which two regions show.

Two remarks. When `git merge-file` is killed while it writes, a truncated text is
encrypted into %A, and reported as a conflict. After a kill of the driver decrypted
temporary files stay in `merge-spool` until the next command's startup recovery.

*Proved*, for any number of regions, bodies and versions: `Refinement`
(`ImplementsAtomicMerge`) and `LineEndings` (`NoFalseConflict`). `StepInv` says what each
temporary file can hold at each step; the lemma about regions, that stripping, merging and
adding carriage returns again gives `Wanted` or a conflict, is proved region by region.

## Further counterexamples

These properties, too, state what a document says, and TLC finds them violated; they are kept in
the modules next to the others and are not listed as runs. Each needs the named property alone,
under `Spec` (not `KeepingSpec`), in the configuration given with the constants changed as
stated. The small rekey configuration is `MCRekeyOneKill.cfg` with `Files = {secretA}`, `Ops =
{"rekey", "status"}`, `MaxGen = 2` and `MaxCrashes = 2`.

| Property | Configuration | Says |
|---|---|---|
| `DiscardedJournalWasUnused` | `MCLockRefused.cfg` with `MaxCrashes = 2` | format-spec.md:185: "`lock.journal` is removed ONLY after every recorded entry has been successfully recovered." Recovery killed after it has put the key back makes the next one discard the journal |
| `BothKeysMeanCompleted` | `MCLockRefused.cfg` with `Pulled = {default}` | format-spec.md:180: both keys mean the lock had completed. A filter that saves a refreshed key after a killed lock makes it wrong |
| `ReplayRestoresFiles` | `MCLockRefused.cfg` | after a replay no listed secret is missing. One removed and not yet checked out again is passed over |
| `AllWorktreesEncryptedAtCommit` | `MCLockRefused.cfg` with `MaxMoves = 2` and `RacySpec`, in which drives also move while a command runs | a worktree that is unreachable during the refresh keeps its decrypted secrets |
| `RollbackKeepsFiles` | the small rekey configuration | git.rs:1533: "Remove any newly staged/activated keys that did not exist in backup". After a kill while the backup is deleted, envelopes that were there before are removed |
| `RewrapRestages` | the small rekey configuration with `Files = {secretA, secretB}`, `Ops = {"rekey", "rewrap"}`, `MaxCrashes = 0`, `MaxFaults = 1` | main.rs:917: "Run 'git-agecrypt rewrap --all' to re-stage remaining secrets." |
| `RecoverySettles` | the small rekey configuration | recovery can always settle a rotation. After a kill while it deletes the backup it refuses for ever |
| `RestoredKeyVerifies` | the small rekey configuration with `MaxGen = 3`, `MaxCrashes = 1`, `MaxOutside = 1` | spec-guarantees.md:34: recovery restores the old or the new state. A `rekey` begun after a pull that left `repo.key` stale, and killed, cannot be rolled back: the restored state fails the verification, now and in every later command |
| `RefreshedKeyIsCurrent` | the same | a filter saves the key `repo.pub` names. It compared before it waited for the lock |
| `AddedEnvelopeIsCurrent` | the same with `Ops = {"add"}` | a new envelope wraps the current generation. `repo.key` may be stale |
| `SecretsStayReadable` | the small rekey configuration with `Ops = {"rekey", "lock"}` and `Hooked = FALSE` | without the pre-commit hook, a secret staged during a rotation that is rolled back stays encrypted to a lost generation |
| `EmitsStagedBlob` | `MCFilters.cfg` | format-spec.md:198: if the staged blob decrypts to the input, "`clean` emits the exact staged ciphertext blob" |
| `HitsAreAuthenticated` | `MCFilters.cfg` | spec-guarantees.md:75: "a cache hit is never trusted without authentication". The entry is authenticated, then opened a second time |
| `OldGenerationsStayBehind` | `MCFilters.cfg` | spec-guarantees.md:44: "stale generation ciphertexts are never re-emitted". With a `repo.key` older than `repo.pub`, the staged blob of the old generation is |

## Mutants

Some modules hold operators marked "Mutant:" before the definition they vary. No
specification uses them. Each is a plausible slip in the code (a dropped guard, a
swapped order, a skipped entry); putting it in the place of the original must make a property fail,
which shows that the property depends on what the code does.

## What is not modelled

- *Lock transaction*: the branch of the refresh that renormalises files instead of checking them
  out (it needs generations and is in `RekeyTransaction`'s `Unlock`), the removal of the
  ciphertext cache after a lock, and the age limit of the legacy scan (60 seconds for an empty
  file).
- *Rekey transaction*: the staging directory; linked worktrees, whose indices rekey does not
  touch; several rings; a pull while a command runs; power loss, as opposed to a kill (the
  copies in the backup are not synchronised); the cache.
- *Filters and cache*: textconv, symlinks, a missing or empty `repo.pub` and the fallback
  directory `default`, the order in which entries are pruned, spooling to disk, failures to read
  or write that end a filter (as a kill does). One ring. A cache entry that is damaged between
  being authenticated and being copied is not considered; one that is replaced in between is.
- *recovery.lock*: the checks of the state directory, the share modes of Windows, file systems
  without a reliable flock.
- *Auto-refresh*: several rings; identities that ask for a passphrase; a process id used again.
- *Enforcement*: `check --commit-range`, which is the server's inspection of a range a user
  names (an empty range inspects nothing); unsafe file names, symbolic links, malformed
  metadata; the foreign-key check of a server that has a key; which names and contents look like
  secrets (`Telling` is a set); an empty `rules` in a repository that is not bare, where the
  worktree's rules are used.
- *Merge driver*: read-only files; the warning about keys with two values
  (`check_semantic_conflicts_file`), which prints and changes nothing; more than two carriage
  returns before a line feed; hunks that Git takes for one because they are adjacent.
- *Recipients*: add, remove and `rewrap --all` are single steps of `RekeyTransaction`. Names and
  their collisions, `init` (killed between `repo.pub` and `repo.key`, `main.rs:297-298`, it
  leaves a public half only, and a second `init` takes the ring for locked), `migrate`, and
  `rewrap` with several rings (it reads the key and the history of the default ring only,
  `main.rs:999`) are not modelled.
- *Shield*: managed blocks of ignore files and hooks are text without a protocol.
- *Format, inspect, export*: parsers and reports over small text files without state of their
  own. What recovery depends on (a torn journal does not parse) is in the models.
- *GitHub lookup, command line, `run`*: one HTTPS request, argument declarations, and the
  environment of a child process. There is no state for a model to follow.
- *Cryptography*: a key opens exactly what was encrypted to its generation.
