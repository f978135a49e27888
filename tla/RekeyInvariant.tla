--------------------------- MODULE RekeyInvariant ---------------------------
(***************************************************************************)
(* The inductive invariant of RekeyTransaction, in named parts: what each  *)
(* step of a rotation or of its recovery may assume about the metadata,    *)
(* the journal and the backup.                                             *)
(***************************************************************************)
EXTENDS RekeyTransaction

Untouched == {"journal", "sync", "wrap"}
Replacing == {"activate", "writePub", "saveKey"}
Replaced  == {"stage", "purgeFinished", "finish"}
Restoring == {"restore", "prune", "restoreKey"}

(* The journal exists from its creation to the last step of the rotation or *)
(* of the recovery; the backup is whole while metadata are being replaced.  *)
PhaseInv ==
  /\ pc \in {"run", "purgeOld", "backup", "journal"} => ~pending
  /\ pc \in {"sync", "wrap", "purgeRolled", "purgeDone", "dropJournal"}
              \cup Replacing \cup Replaced \cup Restoring => pending
  /\ pc \in {"purgeOld", "backup"} => key # 0
  /\ pc \in Untouched \cup Replacing \cup {"stage"} => {"pub", "keys", "key"} \subseteq saved
  /\ pc \in Restoring => BackupUsable
  /\ pc = "dropJournal" => saved = {}
  /\ pc = "restoreKey" => todo = {}

(* Generations only grow, and the one a rotation creates is the newest.     *)
OrderInv ==
  /\ 0 < pub /\ pub <= newest
  /\ pc \in {"purgeOld", "backup", "journal"} => newest < MaxGen
  /\ pc = "journal" => old.pub # 0
  /\ pending \/ pc = "journal" => old.pub <= newest
  /\ pc = "sync" => old.pub < newest
  /\ pc \in {"wrap"} \cup Replacing => target # 0
  /\ pending => old.pub # 0 /\ (target # 0 => old.pub < target /\ target <= newest)

(* How far the rotation has come in replacing metadata.                     *)
ReplaceInv ==
  /\ pc \in Untouched => pub = old.pub /\ key = old.key /\ env = old.env
  /\ pc \in Untouched => \A r \in Recipients : old.env[r] # 0 => r \in saved
  /\ pc \in Replacing =>
       /\ key = old.key
       /\ pub = IF pc = "saveKey" THEN target ELSE old.pub
       /\ \A r \in Recipients :
            IF old.env[r] = 0 THEN env[r] = 0
            ELSE r \in saved /\ env[r] = IF pc = "activate" /\ r \in todo
                                         THEN old.env[r] ELSE target
  /\ pc = "activate" => \A r \in todo : old.env[r] # 0
  /\ pc \in Replaced \cup {"purgeDone"} => Activated

(* How far the rollback has come.                                           *)
RestoreInv ==
  /\ pc \in Restoring \cup {"purgeRolled"} => pub = old.pub
  /\ pc \in {"restore", "prune"} => \A r \in todo : pc = "restore" <=> r \in saved
  /\ pc \in Restoring => \A r \in Recipients :
       \/ r \in todo
       \/ r \in saved /\ env[r] = old.env[r]
       \/ r \notin saved /\ (pc = "restore" \/ env[r] = 0)

Uniform(m) == m.key \in {0, m.pub} /\ \A r \in Recipients : m.env[r] \in {0, m.pub}

(* As long as no other process has replaced a key, metadata outside a       *)
(* rotation are of one generation, and within one of at most two, with the  *)
(* old key in the backup as soon as repo.key could need it.                 *)
ConsistencyInv ==
  outside = 0 =>
    /\ refresher = 0
    /\ pending \/ pc \in Untouched => Uniform(old) /\ old.key = old.pub
    /\ ~pending => Uniform(Current)
    /\ pending =>
         /\ pub \in {old.pub, target} /\ key \in {old.pub, target} \ {0}
         /\ \A r \in Recipients : env[r] \in {0, old.pub, target}
         /\ Activated => Uniform(Current)
         /\ ~Activated /\ BackupUsable => key = old.pub \/ "key" \in saved
    /\ pc \in {"purgeRolled", "purgeDone", "dropJournal"} => Uniform(Current)
    /\ pc = "purgeRolled" => key = old.pub

(* What has been staged when a rekey is about to report success.            *)
StagedInv ==
  pc \in {"purgeFinished", "finish"} =>
    \A f \in Files \ unlisted : disk[f] = "plain" => index[f] = pub

IInv ==
  /\ TypeOK /\ PhaseInv /\ OrderInv /\ ReplaceInv /\ RestoreInv
  /\ ConsistencyInv /\ StagedInv
=============================================================================
