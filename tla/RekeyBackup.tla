------------------------------ MODULE RekeyBackup ------------------------------
(***************************************************************************)
(* What RekeyInvariant becomes as long as nothing interrupts the deletion  *)
(* of a backup that a rollback has restored: every rollback then starts    *)
(* from a whole backup, however often rotations and rollbacks are killed,  *)
(* and no key and no envelope is lost.  With at most one kill or failing   *)
(* step that window stays closed, and no secret is lost either.            *)
(***************************************************************************)
EXTENDS RekeyInvariant

(* The interruption RollbackKeepsFiles fails after.                         *)
WindowClosed == pc = "purgeRolled" => ~Crash /\ ~PurgeFails

SteadySpec == Init /\ [][Next /\ WindowClosed]_vars

(* Pulls and filters replace no key.                                        *)
Alone == MaxOutside = 0

(* A user may remove envelopes, but keeps one of his own.                   *)
OwnKept ==
  \A m \in Mine : RemoveRecipient(m) => \E n \in Mine \ {m} : env[n] # 0

KeepingSpec == Init /\ [][Next /\ OwnKept]_vars

(* Users do without --force and --no-verify, and commit secrets together    *)
(* with the metadata they were encrypted under.                             *)
Careful == /\ Hooked /\ TRUE \notin Forces
           /\ \A parts \in Commits : "secrets" \in parts => "metadata" \in parts

(* A lock or an unlock without --force that meets dirty secrets is told of  *)
(* them: its git status does not fail silently.                             *)
StatusAnswers ==
  pc = "run" /\ cmd.op \in {"lock", "unlock"} /\ ~cmd.force /\ Dirty # {}
  => UNCHANGED secretVars

ToldSpec == Init /\ [][Next /\ OwnKept /\ StatusAnswers]_vars

Rotating == Untouched \cup Replacing \cup Replaced

(* The backup is whole until a rollback is through.  A kill between its     *)
(* deletion and that of the journal leaves a journal recovery refuses.      *)
WholeInv ==
  /\ pending /\ ~Activated /\ pc \notin {"purgeRolled", "dropJournal"} =>
       \/ /\ {"pub", "keys", "key"} \subseteq saved
          /\ \A r \in Recipients : old.env[r] # 0 => r \in saved
       \/ saved = {} /\ pub = old.pub
  /\ pc = "dropJournal" /\ ~Activated => pub = old.pub

(* A rotation or its rollback gives or takes nobody's envelope, and         *)
(* repo.key is the one of the generation in force.                          *)
KeptInv ==
  /\ pending => \A r \in Recipients : env[r] # 0 <=> old.env[r] # 0
  /\ pending /\ ~Activated => key = old.pub

BackupInv == outside = 0 /\ WholeInv /\ KeptInv

(* This user always has an envelope.                                        *)
OwnInv == \E m \in Mine : env[m] # 0

-----------------------------------------------------------------------------
OneKill == MaxCrashes + MaxFaults <= 1

Broken == crashes + faults

(* What recovery meets has used up the one kill.                            *)
KillInv ==
  /\ crashes <= MaxCrashes /\ faults <= MaxFaults
  /\ pending /\ pc \notin Rotating => Broken = 1

(* The generation in force, as far as repo.pub can be put back.             *)
Anchor == IF pending /\ ~Activated THEN old.pub ELSE pub

(* Committed index entries are of a committed generation.  The exception    *)
(* are entries committed while a killed rotation was pending: the envelopes *)
(* in that commit may be those of the generation that is rolled back.       *)
CommittedInv ==
  \A f \in Files : f \notin staged /\ index[f] \notin history =>
    /\ Broken = 1
    /\ index[f] = Anchor \/ (pc = "stage" /\ index[f] = old.pub)

(* Ciphertext in the worktree is committed, and of a committed generation   *)
(* if the ring is unlocked.  Locked, there is nothing else.                 *)
CipherInv ==
  /\ \A f \in Files : disk[f] = "cipher" =>
       f \notin staged /\ (index[f] \notin history => key = 0)
  /\ key = 0 => staged = {} /\ \A f \in Files : disk[f] = "cipher"
  /\ 0 \notin history /\ ~cmd.force

SecretInv == CommittedInv /\ CipherInv

(* What one kill leaves: the rollback's backup, this user's envelope and    *)
(* every ciphertext's generation.                                           *)
OneKillInv == BackupInv /\ OwnInv /\ KillInv /\ SecretInv
=============================================================================
