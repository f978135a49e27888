--------------------------- MODULE RekeyTransaction ---------------------------
(***************************************************************************)
(* The `rekey` transaction of git-agecrypt for one ring: a new master key  *)
(* is generated and replaces the old one in the recipients' envelopes, in  *)
(* repo.pub and in repo.key, behind a backup and a journal; a killed       *)
(* rotation is completed or rolled back by the startup recovery of the     *)
(* next command.                                                           *)
(*                                                                         *)
(* A key is modelled by its generation, 0 standing for "none".  Commands   *)
(* hold recovery.lock from startup recovery to their end and so run one at *)
(* a time; filters, `git add` and pulls take no part in it.                *)
(***************************************************************************)
EXTENDS Naturals, FiniteSets

CONSTANTS
  Recipients,  \* names an envelope in keys/ may have
  Mine,        \* recipients whose private key is on this machine
  Foreign,     \* other files in keys/, which are not envelopes
  Files,       \* tracked secrets of the worktree
  Ops,         \* the commands users run
  Forces,      \* whether they pass --force
  Hooked,      \* the pre-commit hook is installed
  Commits,     \* what users commit at a time: secrets, metadata, both
  MaxGen,      \* bound on generations
  MaxCrashes,  \* bound on kills and on errors returned without cleaning up
  MaxFaults,   \* bound on steps that fail, unnoticed ones included
  MaxOutside   \* bound on key changes from outside: pulls and auto-refreshes

AllOps == {"rekey", "lock", "unlock", "add", "remove", "rewrap", "status"}

ASSUME NamesType  == Mine \subseteq Recipients /\ Recipients \cap Foreign = {}
                     /\ {"pub", "keys", "key"} \cap (Recipients \cup Foreign) = {}
ASSUME OpsType    == Ops \subseteq AllOps /\ Forces \subseteq BOOLEAN /\ Hooked \in BOOLEAN
ASSUME CommitsType == Commits \subseteq SUBSET {"secrets", "metadata"}
ASSUME BoundsType == /\ MaxGen \in Nat \ {0} /\ MaxCrashes \in Nat
                     /\ MaxFaults \in Nat     /\ MaxOutside \in Nat

VARIABLES
  pub,        \* the generation repo.pub names
  env,        \* the generation each file in keys/ wraps
  key,        \* the generation of repo.key
  pending,    \* rekey.journal exists
  target,     \* the generation its new_recipient line names
  saved,      \* what rekey.backup still holds
  old,        \* the metadata as they were when the backup was made
  newest,     \* the last generation created by anyone
  disk,       \* contents of each secret in the worktree
  index,      \* the generation each secret is staged under
  staged,     \* secrets whose index entry differs from HEAD
  head,       \* the metadata in the last commit
  history,    \* generations some committed envelope opens for this user
  unlisted,   \* history: secrets git did not list when rekey was to stage them
  refresher,  \* the generation a filter is about to save in repo.key
  pc,         \* the step the running command is about to take
  cmd,        \* the command that holds recovery.lock
  todo,       \* names the current loop has not visited
  crashes, faults, outside

metaVars   == <<pub, env, key>>
logVars    == <<pending, target, saved, old>>
secretVars == <<disk, index, staged>>
gitVars    == <<head, history, unlisted>>
counters   == <<crashes, faults, outside>>
vars == <<pub, env, key, pending, target, saved, old, newest, disk, index, staged,
          head, history, unlisted, refresher, pc, cmd, todo, crashes, faults, outside>>

Names    == Recipients \cup Foreign
Gens     == 0 .. MaxGen
Metadata == [pub : Gens, env : [Names -> Gens], key : Gens]
Commands == [op : AllOps, force : BOOLEAN]
Content  == {"plain", "edited", "cipher"}
Purging  == {"purgeOld", "purgeRolled", "purgeDone", "purgeFinished"}
PcValues == Purging \cup
            {"idle", "recover", "restore", "prune", "restoreKey", "dropJournal",
             "run", "backup", "journal", "sync", "wrap", "activate", "writePub",
             "saveKey", "stage", "finish"}

Enrolled      == {r \in Recipients : env[r] # 0}
Current       == [pub |-> pub, env |-> env, key |-> key]
WholeBackup   == {"pub", "keys", "key"} \cup Enrolled
(* Mutant: recovery takes a rotation for complete once repo.pub is new.      *)
ActivatedByPub == target # 0 /\ pub = target

(* Recovery's test for a rotation whose three kinds of metadata are all new. *)
Activated     == target # 0 /\ pub = target /\ key = target
BackupUsable  == {"pub", "keys"} \subseteq saved
Dirty         == {f \in Files : disk[f] = "edited"} \cup staged

(* The clean filter passes ciphertext through, reuses the staged blob of    *)
(* unchanged plaintext it can decrypt, and encrypts to repo.pub otherwise.  *)
CleanedUnder(f) ==
  IF disk[f] = "cipher" \/ (disk[f] = "plain" /\ index[f] = key) THEN index[f] ELSE pub

Init ==
  /\ pub = 1
  /\ env \in {e \in [Names -> {0, 1}] :
                /\ \A n \in Foreign : e[n] = 1
                /\ \E m \in Mine : e[m] = 1}
  /\ key \in {0, 1}
  /\ pending = FALSE /\ target = 0
  /\ saved = {} /\ old = [pub |-> 0, env |-> [n \in Names |-> 0], key |-> 0]
  /\ newest = 1
  /\ disk = [f \in Files |-> IF key = 1 THEN "plain" ELSE "cipher"]
  /\ index = [f \in Files |-> 1] /\ staged = {}
  /\ head = [pub |-> pub, env |-> env] /\ history = {1}
  /\ unlisted = {}
  /\ refresher = 0
  /\ pc = "idle" /\ cmd = [op |-> "status", force |-> FALSE] /\ todo = {}
  /\ crashes = 0 /\ faults = 0 /\ outside = 0

(* A git command may fail without the program looking at it.                *)
Unnoticed(failed) ==
  IF failed THEN faults < MaxFaults /\ faults' = faults + 1 /\ UNCHANGED <<crashes, outside>>
            ELSE UNCHANGED counters

(* The command returns: its guard is dropped.                               *)
Return == pc' = "idle" /\ todo' = {}

-----------------------------------------------------------------------------
(* Startup recovery.                                                        *)

Start(op, force) ==
  /\ pc = "idle"
  /\ pc' = "recover" /\ cmd' = [op |-> op, force |-> force]
  /\ UNCHANGED <<metaVars, logVars, secretVars, gitVars, counters, newest,
                 refresher, todo>>

NothingToRecover ==
  /\ pc = "recover" /\ ~pending
  /\ pc' = "run"
  /\ UNCHANGED <<metaVars, logVars, secretVars, gitVars, counters, newest,
                 refresher, cmd, todo>>

RecoverCompleted ==
  /\ pc = "recover" /\ pending /\ Activated
  /\ pc' = "purgeDone"
  /\ UNCHANGED <<metaVars, logVars, secretVars, gitVars, counters, newest,
                 refresher, cmd, todo>>

RecoverRefuses ==
  /\ pc = "recover" /\ pending /\ ~Activated /\ ~BackupUsable
  /\ Return
  /\ UNCHANGED <<metaVars, logVars, secretVars, gitVars, counters, newest,
                 refresher, cmd>>

RestorePub ==
  /\ pc = "recover" /\ pending /\ ~Activated /\ BackupUsable
  /\ pub' = old.pub
  /\ todo' = saved \cap Recipients
  /\ pc' = "restore"
  /\ UNCHANGED <<env, key, logVars, secretVars, gitVars, counters, newest,
                 refresher, cmd>>

(* Mutant: an envelope of the new generation is left in place.              *)
LeaveEnvelope(r) ==
  /\ pc = "restore" /\ r \in todo
  /\ todo' = todo \ {r}
  /\ UNCHANGED <<metaVars, logVars, secretVars, gitVars, counters, newest,
                 refresher, pc, cmd>>

RestoreEnvelope(r) ==
  /\ pc = "restore" /\ r \in todo
  /\ env' = [env EXCEPT ![r] = old.env[r]]
  /\ todo' = todo \ {r}
  /\ UNCHANGED <<pub, key, logVars, secretVars, gitVars, counters, newest,
                 refresher, pc, cmd>>

(* Every file in keys/ without a counterpart in the backup is deleted next. *)
StartPruning ==
  /\ pc = "restore" /\ todo = {}
  /\ todo' = {n \in Names : env[n] # 0} \ saved
  /\ pc' = "prune"
  /\ UNCHANGED <<metaVars, logVars, secretVars, gitVars, counters, newest,
                 refresher, cmd>>

PruneFile(n) ==
  /\ pc = "prune" /\ n \in todo
  /\ env' = [env EXCEPT ![n] = 0]
  /\ todo' = todo \ {n}
  /\ UNCHANGED <<pub, key, logVars, secretVars, gitVars, counters, newest,
                 refresher, pc, cmd>>

FinishPruning ==
  /\ pc = "prune" /\ todo = {}
  /\ pc' = "restoreKey"
  /\ UNCHANGED <<metaVars, logVars, secretVars, gitVars, counters, newest,
                 refresher, cmd, todo>>

(* repo.key is restored and all that was restored verified; an envelope     *)
(* reads back as it was written, so only the key can fail to match.         *)
RestoreKey ==
  /\ pc = "restoreKey"
  /\ key' = IF "key" \in saved THEN old.key ELSE key
  /\ IF pub = old.pub /\ ("key" \in saved => key' = pub)
     THEN pc' = "purgeRolled" /\ UNCHANGED todo
     ELSE Return
  /\ UNCHANGED <<pub, env, logVars, secretVars, gitVars, counters, newest,
                 refresher, cmd>>

DropJournal ==
  /\ pc = "dropJournal"
  /\ pending' = FALSE
  /\ pc' = "run"
  /\ UNCHANGED <<metaVars, target, saved, old, secretVars, gitVars, counters,
                 newest, refresher, cmd, todo>>

-----------------------------------------------------------------------------
(* remove_dir_all on rekey.backup, wherever it is called: entries go one at *)
(* a time in the order the file system lists them, a directory after its    *)
(* contents.                                                                *)

PurgePart(p) ==
  /\ pc \in Purging /\ p \in saved
  /\ p = "keys" => saved \cap Recipients = {}
  /\ saved' = saved \ {p}
  /\ UNCHANGED <<metaVars, pending, target, old, secretVars, gitVars, counters,
                 newest, refresher, pc, cmd, todo>>

FinishPurge ==
  /\ pc \in Purging /\ saved = {}
  /\ pc' = CASE pc = "purgeOld" -> "backup"
             [] pc = "purgeFinished" -> "finish"
             [] OTHER -> "dropJournal"
  /\ UNCHANGED <<metaVars, logVars, secretVars, gitVars, counters, newest,
                 refresher, cmd, todo>>

(* Only at the end of a successful rekey is a failure no more than a warning. *)
PurgeFails ==
  /\ pc \in Purging /\ saved # {} /\ faults < MaxFaults
  /\ faults' = faults + 1
  /\ IF pc = "purgeFinished" THEN pc' = "finish" /\ UNCHANGED todo ELSE Return
  /\ UNCHANGED <<metaVars, logVars, secretVars, gitVars, newest, refresher, cmd,
                 crashes, outside>>

-----------------------------------------------------------------------------
(* cmd_rekey.                                                               *)

BeginRekey ==
  /\ pc = "run" /\ cmd.op = "rekey"
  /\ key # 0 /\ Enrolled # {} /\ newest < MaxGen
  /\ pc' = "purgeOld"
  /\ UNCHANGED <<metaVars, logVars, secretVars, gitVars, counters, newest,
                 refresher, cmd, todo>>

(* Mutant: the envelopes are not copied into the backup.                    *)
BackupWithoutEnvelopes ==
  /\ pc = "backup"
  /\ old' = Current /\ saved' = {"pub", "keys", "key"}
  /\ pc' = "journal"
  /\ UNCHANGED <<metaVars, pending, target, secretVars, gitVars, counters,
                 newest, refresher, cmd, todo>>

CreateBackup ==
  /\ pc = "backup"
  /\ old' = Current /\ saved' = WholeBackup
  /\ pc' = "journal"
  /\ UNCHANGED <<metaVars, pending, target, secretVars, gitVars, counters,
                 newest, refresher, cmd, todo>>

CreateJournal ==
  /\ pc = "journal"
  /\ newest' = newest + 1
  /\ pending' = TRUE /\ target' = 0
  /\ pc' = "sync"
  /\ UNCHANGED <<metaVars, saved, old, secretVars, gitVars, counters,
                 refresher, cmd, todo>>

SyncJournal ==
  /\ pc = "sync"
  /\ target' = newest
  /\ pc' = "wrap"
  /\ UNCHANGED <<metaVars, pending, saved, old, secretVars, gitVars, counters,
                 newest, refresher, cmd, todo>>

(* The new envelopes are written to rekey.staging and validated there.      *)
WrapEnvelopes ==
  /\ pc = "wrap"
  /\ todo' = Enrolled
  /\ pc' = "activate"
  /\ UNCHANGED <<metaVars, logVars, secretVars, gitVars, counters, newest,
                 refresher, cmd>>

(* Validation fails: journal first, then the backup as far as possible.     *)
WrapFails ==
  /\ pc = "wrap" /\ faults < MaxFaults
  /\ faults' = faults + 1
  /\ pending' = FALSE
  /\ saved' \in SUBSET saved
  /\ Return
  /\ UNCHANGED <<metaVars, target, old, secretVars, gitVars, newest, refresher,
                 cmd, crashes, outside>>

ActivateEnvelope(r) ==
  /\ pc = "activate" /\ r \in todo
  /\ env' = [env EXCEPT ![r] = target]
  /\ todo' = todo \ {r}
  /\ pc' = IF todo = {r} THEN "writePub" ELSE "activate"
  /\ UNCHANGED <<pub, key, logVars, secretVars, gitVars, counters, newest,
                 refresher, cmd>>

WritePub ==
  /\ pc = "writePub"
  /\ pub' = target
  /\ pc' = "saveKey"
  /\ UNCHANGED <<env, key, logVars, secretVars, gitVars, counters, newest,
                 refresher, cmd, todo>>

SaveKey ==
  /\ pc = "saveKey"
  /\ key' = target
  /\ pc' = "stage"
  /\ UNCHANGED <<pub, env, logVars, secretVars, gitVars, counters, newest,
                 refresher, cmd, todo>>

(* git add --renormalize of the given secrets.                              *)
Renormalize(fs) ==
  /\ index' = [f \in Files |-> IF f \in fs THEN CleanedUnder(f) ELSE index[f]]
  /\ staged' = staged \cup {f \in fs : disk[f] = "edited" \/ CleanedUnder(f) # index[f]}
  /\ disk' = [f \in Files |-> IF f \in fs /\ disk[f] = "edited" THEN "plain" ELSE disk[f]]

(* Mutant: a plain `git add`, which passes over unchanged files.            *)
StageEditedOnly ==
  /\ pc = "stage"
  /\ Renormalize({f \in Files : disk[f] = "edited"})
  /\ pc' = "purgeFinished"
  /\ UNCHANGED <<metaVars, logVars, gitVars, counters, newest, refresher, cmd, todo>>

(* What is staged are the secrets git ls-files prints.  Its exit status is  *)
(* not looked at, and rekey goes on when it printed none or not all.        *)
StageSecrets ==
  /\ pc = "stage"
  /\ \E listed \in SUBSET Files :
       /\ Renormalize(listed)
       /\ unlisted' = Files \ listed
       /\ Unnoticed(listed # Files)
  /\ pc' = "purgeFinished"
  /\ UNCHANGED <<metaVars, logVars, head, history, newest, refresher, cmd, todo>>

(* Both the streamed `git add` and the batches fail, some of the batches    *)
(* perhaps after the first; journal and backup stay.                        *)
StageFails ==
  /\ pc = "stage" /\ faults < MaxFaults
  /\ faults' = faults + 1
  /\ \E fs \in SUBSET Files : fs # Files /\ Renormalize(fs)
  /\ Return
  /\ UNCHANGED <<metaVars, logVars, gitVars, newest, refresher, cmd, crashes, outside>>

FinishRekey ==
  /\ pc = "finish"
  /\ pending' = FALSE
  /\ unlisted' = {}
  /\ Return
  /\ UNCHANGED <<metaVars, target, saved, old, secretVars, head, history,
                 counters, newest, refresher, cmd>>

-----------------------------------------------------------------------------
(* The other commands, whose own steps other modules take apart.            *)

(* `status`, and any command that refuses.                                  *)
Refuse ==
  /\ pc = "run"
  /\ Return
  /\ UNCHANGED <<metaVars, logVars, secretVars, gitVars, counters, newest,
                 refresher, cmd>>

(* Dirty secrets stop it, if git status tells of them.                      *)
Lock ==
  /\ pc = "run" /\ cmd.op = "lock" /\ Unnoticed(~cmd.force /\ Dirty # {})
  /\ key' = 0
  /\ disk' = [f \in Files |-> "cipher"]
  /\ Return
  /\ UNCHANGED <<pub, env, logVars, index, staged, gitVars, newest, refresher, cmd>>

(* The first envelope that opens gives the key, whatever repo.pub says; the *)
(* smudge filter then treats a key that does not match repo.pub as none.    *)
(* Plaintext whose index entry this key does not open is kept and staged    *)
(* again, unless git add fails.                                             *)
Unlock(m) ==
  LET kept   == {f \in Files : disk[f] # "cipher" /\ index[f] # env[m]}
      Out(f) == IF index[f] = env[m] /\ env[m] = pub THEN "plain" ELSE "cipher"
  IN
  /\ pc = "run" /\ cmd.op = "unlock" /\ m \in Enrolled
  /\ key' = env[m]
  /\ \/ ~cmd.force /\ Dirty # {} /\ UNCHANGED <<secretVars, counters>>
     \/ \E added \in SUBSET kept :
          /\ index' = [f \in Files |-> IF f \in added THEN pub ELSE index[f]]
          /\ staged' = staged \cup added
          /\ disk' = [f \in Files |-> CASE f \in added -> "plain"
                                        [] f \in kept \ added -> disk[f]
                                        [] OTHER -> Out(f)]
          /\ Unnoticed((~cmd.force /\ Dirty # {}) \/ added # kept)
  /\ Return
  /\ UNCHANGED <<pub, env, logVars, gitVars, newest, refresher, cmd>>

AddRecipient(r) ==
  /\ pc = "run" /\ cmd.op = "add" /\ key # 0
  /\ env' = [env EXCEPT ![r] = key]
  /\ Return
  /\ UNCHANGED <<pub, key, logVars, secretVars, gitVars, counters, newest,
                 refresher, cmd>>

RemoveRecipient(r) ==
  /\ pc = "run" /\ cmd.op = "remove" /\ r \in Enrolled
  /\ env' = [env EXCEPT ![r] = 0]
  /\ Return
  /\ UNCHANGED <<pub, key, logVars, secretVars, gitVars, counters, newest,
                 refresher, cmd>>

(* The keys rewrap tries: repo.key and those of committed envelopes.        *)
Candidates == ({key} \cup history) \ {0}

(* rewrap --all decrypts ciphertext of other generations and stages it; the *)
(* first file it cannot open ends it, and plaintext is passed over.         *)
RewrapAll ==
  /\ pc = "run" /\ cmd.op = "rewrap" /\ key # 0
  /\ LET others == {f \in Files : disk[f] = "cipher" /\ index[f] # key}
         known  == {f \in others : index[f] \in Candidates}
     IN \E done \in SUBSET known :
          /\ known = others => done = known
          /\ index' = [f \in Files |-> IF f \in done THEN pub ELSE index[f]]
          /\ disk' = [f \in Files |-> IF f \in done THEN "plain" ELSE disk[f]]
          /\ staged' = staged \cup done
  /\ Return
  /\ UNCHANGED <<metaVars, logVars, gitVars, counters, newest, refresher, cmd>>

-----------------------------------------------------------------------------
(* The process is killed, or returns an error without cleaning up.  While   *)
(* it was copying, any part of the backup may be there.                     *)
Crash ==
  /\ pc # "idle" /\ crashes < MaxCrashes
  /\ crashes' = crashes + 1
  /\ Return
  /\ \/ UNCHANGED <<saved, old>>
     \/ /\ pc = "backup"
        /\ old' = Current /\ saved' \in SUBSET WholeBackup
  /\ UNCHANGED <<metaVars, pending, target, secretVars, gitVars, newest,
                 refresher, cmd, faults, outside>>

UserEdits(f) ==
  /\ disk[f] = "plain"
  /\ disk' = [disk EXCEPT ![f] = "edited"]
  /\ UNCHANGED <<metaVars, logVars, index, staged, gitVars, counters, newest,
                 refresher, pc, cmd, todo>>

(* git add of one edited secret: the clean filter takes no lock.            *)
GitAdd(f) ==
  /\ disk[f] = "edited"
  /\ Renormalize({f})
  /\ UNCHANGED <<metaVars, logVars, gitVars, counters, newest, refresher, pc,
                 cmd, todo>>

(* Mutant: the hook does not look at which key staged ciphertext is under.  *)
CommitUnchecked ==
  /\ pc = "idle"
  /\ \E parts \in Commits :
       /\ staged' = IF "secrets" \in parts THEN {} ELSE staged
       /\ IF "metadata" \in parts
          THEN /\ head' = [pub |-> pub, env |-> env]
               /\ history' = history \cup ({env[m] : m \in Mine} \ {0})
          ELSE UNCHANGED <<head, history>>
  /\ UNCHANGED <<metaVars, logVars, disk, index, unlisted, counters, newest,
                 refresher, pc, cmd, todo>>

(* The user commits secrets, metadata or both.  The pre-commit hook refuses *)
(* staged ciphertext that repo.key, if there is one, does not open.         *)
GitCommit ==
  /\ pc = "idle"
  /\ \E parts \in Commits :
       /\ "secrets" \in parts /\ Hooked /\ key # 0 => \A f \in staged : index[f] = key
       /\ staged' = IF "secrets" \in parts THEN {} ELSE staged
       /\ IF "metadata" \in parts
          THEN /\ head' = [pub |-> pub, env |-> env]
               /\ history' = history \cup ({env[m] : m \in Mine} \ {0})
          ELSE UNCHANGED <<head, history>>
  /\ UNCHANGED <<metaVars, logVars, disk, index, unlisted, counters, newest,
                 refresher, pc, cmd, todo>>

(* A teammate's rotation arrives.  Git refuses to overwrite uncommitted     *)
(* metadata or secrets; the smudge filter unwraps the new key if it can do  *)
(* so without asking, and leaves ciphertext otherwise.                      *)
Pull ==
  /\ pc = "idle" /\ outside < MaxOutside /\ newest < MaxGen
  /\ head = [pub |-> pub, env |-> env] /\ Dirty = {}
  /\ newest' = newest + 1
  /\ pub' = newest'
  /\ env' = [n \in Names |-> IF n \in Enrolled THEN newest' ELSE env[n]]
  /\ head' = [pub |-> pub', env |-> env']
  /\ history' = history \cup ({env'[m] : m \in Mine} \ {0})
  /\ index' = [f \in Files |-> newest']
  /\ \/ key' = key /\ disk' = [f \in Files |-> "cipher"]
     \/ /\ key # 0 /\ Mine \cap Enrolled # {}
        /\ key' = newest' /\ disk' = [f \in Files |-> "plain"]
  /\ outside' = outside + 1
  /\ UNCHANGED <<logVars, staged, unlisted, refresher, pc, cmd, todo, crashes, faults>>

(* A filter that found repo.key stale has unwrapped the key repo.pub names  *)
(* and saves it when it gets recovery.lock, without another look.           *)
RefresherStart ==
  /\ key \notin {0, pub} /\ refresher = 0 /\ outside < MaxOutside
  /\ \E m \in Mine : env[m] = pub
  /\ refresher' = pub
  /\ outside' = outside + 1
  /\ UNCHANGED <<metaVars, logVars, secretVars, gitVars, newest, pc, cmd, todo,
                 crashes, faults>>

RefresherSave ==
  /\ pc = "idle" /\ refresher # 0
  /\ key' = refresher
  /\ refresher' = 0
  /\ UNCHANGED <<pub, env, logVars, secretVars, gitVars, counters, newest, pc,
                 cmd, todo>>

RefresherGivesUp ==
  /\ refresher # 0
  /\ refresher' = 0
  /\ UNCHANGED <<metaVars, logVars, secretVars, gitVars, counters, newest, pc,
                 cmd, todo>>

-----------------------------------------------------------------------------
Recovery ==
  \/ NothingToRecover \/ RecoverCompleted \/ RecoverRefuses
  \/ RestorePub \/ StartPruning \/ FinishPruning \/ RestoreKey \/ DropJournal
  \/ \E n \in Names : RestoreEnvelope(n) \/ PruneFile(n)

Purge == FinishPurge \/ PurgeFails
         \/ \E p \in {"pub", "keys", "key"} \cup Recipients : PurgePart(p)

Rekey ==
  \/ BeginRekey \/ CreateBackup \/ CreateJournal \/ SyncJournal
  \/ WrapEnvelopes \/ WrapFails
  \/ \E r \in Recipients : ActivateEnvelope(r)
  \/ WritePub \/ SaveKey \/ StageSecrets \/ StageFails \/ FinishRekey

OtherCommand ==
  \/ Refuse \/ Lock \/ RewrapAll
  \/ \E m \in Mine : Unlock(m)
  \/ \E r \in Recipients : AddRecipient(r) \/ RemoveRecipient(r)

CommandStep == Recovery \/ Purge \/ Rekey \/ OtherCommand

Environment ==
  \/ Crash \/ GitCommit \/ Pull
  \/ RefresherStart \/ RefresherSave \/ RefresherGivesUp
  \/ \E f \in Files : UserEdits(f) \/ GitAdd(f)

Next ==
  \/ \E op \in Ops, force \in Forces : Start(op, force)
  \/ CommandStep
  \/ Environment

Spec == Init /\ [][Next]_vars
-----------------------------------------------------------------------------
CountersOK == crashes \in Nat /\ faults \in Nat /\ outside \in Nat

TypeOK ==
  /\ pub \in Gens /\ env \in [Names -> Gens] /\ key \in Gens
  /\ pending \in BOOLEAN /\ target \in Gens
  /\ saved \subseteq {"pub", "keys", "key"} \cup Recipients /\ old \in Metadata
  /\ newest \in Gens
  /\ disk \in [Files -> Content] /\ index \in [Files -> Gens] /\ staged \subseteq Files
  /\ head \in [pub : Gens, env : [Names -> Gens]] /\ history \subseteq Gens
  /\ unlisted \subseteq Files
  /\ refresher \in Gens
  /\ pc \in PcValues /\ cmd \in Commands /\ todo \subseteq Names
  /\ CountersOK

(* Write-ahead: a step of rekey or of its rollback that changes repo.pub,   *)
(* an envelope or repo.key runs under the journal, and either the value it  *)
(* destroys or the value it writes is the one the backup holds; the only    *)
(* exception are the envelopes a rollback deletes.                          *)
WriteAhead ==
  [][pc \notin {"idle", "run"} =>
       /\ pub' # pub => pending /\ "pub" \in saved /\ old.pub \in {pub, pub'}
       /\ key' # key => pending /\ "key" \in saved /\ old.key \in {key, key'}
       /\ \A r \in Recipients :
            env'[r] # env[r] =>
              /\ pending
              /\ \/ r \in saved /\ old.env[r] \in {env[r], env'[r]}
                 \/ pc = "prune" /\ env'[r] = 0]_vars

(* However often a rotation, its recovery or both were killed, a command    *)
(* begins its own work with no rotation pending, and as long as no other    *)
(* process replaced a key, with repo.key and every envelope of the          *)
(* generation repo.pub names.                                               *)
BodyConsistent ==
  pc = "run" =>
    /\ ~pending
    /\ outside = 0 =>
         key \in {0, pub} /\ \A r \in Recipients : env[r] \in {0, pub}

(* The generation a pending rotation falls back to or ends in.              *)
InForce == IF pending /\ ~Activated /\ "pub" \in saved THEN old.pub ELSE pub

Abstract == INSTANCE AtomicRekey WITH generation <- InForce, unlocked <- key = InForce

(* Envelopes, repo.pub and repo.key are replaced one after another, yet the *)
(* ring changes generation in one step, only with the current key at hand,  *)
(* and a rollback never brings back a generation older than the one in      *)
(* force.  No other process replaces a key here (MaxOutside = 0).           *)
ImplementsAtomicRekey == Abstract!Spec

(* A rollback deletes envelopes the interrupted rotation added, never a     *)
(* file that was in keys/ when the rotation began.                          *)
RollbackKeepsFiles ==
  [][pc = "prune" =>
       \A n \in Names : env[n] # 0 /\ env'[n] = 0 => old.env[n] = 0]_vars

(* The secret half of the generation in force is always within reach, in    *)
(* repo.key, in an own envelope or in the backup, of a user who never       *)
(* removes the last of his own envelopes.                                   *)
KeyIsNeverLost ==
  \/ InForce = key
  \/ \E m \in Mine : InForce = env[m]
  \/ "key" \in saved /\ InForce = old.key

(* A secret that is ciphertext in the worktree, or that has no uncommitted  *)
(* index entry, can be opened with a key at hand or one a committed         *)
(* envelope holds, whatever was killed and staged in between, unless        *)
(* --force was used, secrets were committed without their metadata or the   *)
(* pre-commit hook is missing.                                              *)
SecretsStayReadable ==
  \A f \in Files : disk[f] = "cipher" \/ f \notin staged =>
    \/ index[f] \in Candidates \cup {env[m] : m \in Mine}
    \/ "key" \in saved /\ index[f] = old.key

(* A rekey that reports success has staged every decrypted secret that git  *)
(* listed under the generation it created, edits the user saves meanwhile   *)
(* aside.                                                                   *)
SuccessMeansReencrypted ==
  [][FinishRekey =>
       \A f \in Files \ unlisted : disk[f] = "plain" => index[f] = pub]_vars
-----------------------------------------------------------------------------
(* What documents, comments and messages say and the code does not keep.    *)

(* After any crash the next command recovers the old or the new valid state *)
(* (spec-guarantees 2): recovery never finds a rotation it cannot settle.   *)
RecoverySettles == pc = "recover" /\ pending => Activated \/ BackupUsable

(* The state a rollback restores passes recovery's own verification.        *)
RestoredKeyVerifies == pc = "restoreKey" /\ "key" \in saved => old.key = old.pub

(* "Run 'git-agecrypt rewrap --all' to re-stage remaining secrets": after   *)
(* it no decrypted secret is staged under an older generation.              *)
RewrapRestages ==
  [][RewrapAll /\ key = pub =>
       \A f \in Files : disk[f] = "plain" => index'[f] = pub]_vars

(* A filter only saves the key repo.pub names (it compares the two).        *)
RefreshedKeyIsCurrent == [][RefresherSave => key' = pub]_vars

(* A new envelope wraps the ring's master key (format-spec 4): the          *)
(* generation repo.pub names, under which secrets are encrypted.            *)
AddedEnvelopeIsCurrent ==
  [][\A r \in Recipients : AddRecipient(r) => env'[r] = pub]_vars
=============================================================================
