--------------------------- MODULE Filters_proofs ---------------------------
(***************************************************************************)
(* Proofs about Filters for any files, plaintexts, ciphertexts, processes  *)
(* and bounds.                                                             *)
(***************************************************************************)
EXTENDS FiltersInvariant, TLAPS

(* A ciphertext record has the fields it is built from.                       *)
LEMMA BlobFacts ==
  /\ \A b \in Blobs : b.gen \in Gens /\ b.text \in Texts
  /\ \A g \in Gens, t \in Texts, n \in 0 .. MaxBlobs :
       LET b == [gen |-> g, text |-> t, n |-> n]
       IN  b \in Blobs /\ b.gen = g /\ b.text = t
BY DEF Blobs

(* Teammates' ciphertexts are ciphertexts.                                    *)
LEMMA ElsewhereFacts == Elsewhere \subseteq Contents /\ \A b \in Elsewhere : b \in Blobs
BY ElsewhereType, FilterBoundsType DEF Blobs, Contents, Ciphertexts

(* A key that is not missing is of a generation.                              *)
LEMMA KeysFacts == Gens \subseteq Keys /\ 0 \in Keys /\ \A k \in Keys : k # 0 => k \in Gens
BY DEF Keys

(* Below its bound the count of ciphertexts can grow.                         *)
LEMMA MadeFacts == \A n \in 0 .. MaxBlobs : n < MaxBlobs => n + 1 \in 0 .. MaxBlobs
BY FilterBoundsType

(* Generations start at 1, since 0 is no key.                                 *)
LEMMA GensFacts == 1 \in Gens /\ 0 \notin Gens /\ \A g \in Gens : g + 1 \in Gens <=> g < MaxGen
BY FilterBoundsType DEF Gens

(* A filter that uses the cache has a slot, of its key and its plaintext.     *)
LEMMA SlotFacts ==
  ASSUME TypeOK, PhaseInv, SearchInv, StoreInv, NEW p \in Procs,
         \/ pc[p] \in {"serve", "purge", "reuse", "persist", "rename", "prune"}
         \/ pc[p] = "clean" /\ input[p] \in Texts /\ held[p] # 0
  PROVE  /\ Slot(p) \in Slots
         /\ Slot(p)[1] = dir[p] /\ Slot(p)[2] = held[p]
         /\ Slot(p)[3] = (IF Cleaning(p) THEN input[p] ELSE out[p])
<1>1. dir[p] \in Gens /\ held[p] \in Gens
  BY KeysFacts DEF TypeOK, LocalTypes, PhaseInv, SearchInv, StoreInv
<1>2. (IF Cleaning(p) THEN input[p] ELSE out[p]) \in Texts
  BY BlobFacts DEF PhaseInv, SearchInv, StoreInv, Opens, Cleaning
<1> QED BY <1>1, <1>2 DEF Slot, Slots

(* What a filter encrypts is ciphertext of its input for repo.pub's           *)
(* generation.                                                                *)
LEMMA FreshBlob ==
  ASSUME TypeOK, PhaseInv, SearchInv, NEW p \in Procs, Encrypt(p)
  PROVE  /\ out'[p] \in Blobs /\ out'[p].gen = recipient[p] /\ out'[p].text = input[p]
         /\ \A q \in Procs \ {p} : out'[q] = out[q]
         /\ pc' = [pc EXCEPT ![p] = IF held[p] = 0 THEN "finish" ELSE "persist"]
         /\ UNCHANGED <<op, file, input, recipient, held, dir, staged, cache, mixed>>
<1>1. recipient[p] \in Gens /\ input[p] \in Texts /\ made + 1 \in 0 .. MaxBlobs
  BY MadeFacts DEF TypeOK, RepoTypes, PhaseInv, SearchInv, Encrypt
<1>2. /\ out'[p] = [gen |-> recipient[p], text |-> input[p], n |-> made + 1]
      /\ \A q \in Procs \ {p} : out'[q] = out[q]
  BY DEF TypeOK, LocalTypes, Encrypt
<1>3. /\ out'[p] \in Blobs /\ out'[p].gen = recipient[p] /\ out'[p].text = input[p]
  BY <1>1, <1>2, BlobFacts
<1> QED BY <1>2, <1>3 DEF Encrypt, Goto

(* An empty or damaged slot holds no ciphertext.                              *)
LEMMA NoneFacts == None \notin Blobs /\ None # Damaged /\ Damaged \notin Blobs
BY ValuesDiffer DEF Contents, Ciphertexts

(* What plaintext and ciphertext say.                                         *)
LEMMA PlainFacts ==
  /\ \A t \in Texts : t \notin Blobs /\ Plain(t) = t
  /\ \A b \in Blobs : Plain(b) = b.text
BY ValuesDiffer DEF Plain

(* A filter that caches has an output that says what its input says.          *)
LEMMA StoredOutput ==
  ASSUME TypeOK, PhaseInv, StoreInv, NEW p \in Procs, pc[p] \in {"persist", "rename", "prune"}
  PROVE  /\ out[p] \in Contents /\ Plain(out[p]) = Plain(input[p])
         /\ Cleaning(p) => out[p] \in Blobs
<1>1. CASE Cleaning(p)
  BY <1>1, PlainFacts DEF StoreInv, Contents, Ciphertexts
<1>2. CASE ~Cleaning(p)
  BY <1>2, PlainFacts, BlobFacts DEF StoreInv, Contents, Ciphertexts, Opens
<1> QED BY <1>1, <1>2

(* What it caches is ciphertext of the slot's plaintext.                      *)
LEMMA StoredEntry ==
  ASSUME TypeOK, PhaseInv, SearchInv, StoreInv, NEW p \in Procs, pc[p] = "rename"
  PROVE  Entry(p) \in Blobs /\ Entry(p).text = Slot(p)[3]
BY SlotFacts DEF StoreInv, Entry, Opens

(* What a hit returns is ciphertext of the input.                             *)
LEMMA ServedEntry ==
  ASSUME TypeOK, PhaseInv, SearchInv, StoreInv, CacheInv, NEW p \in Procs,
         pc[p] = "serve", cache[Slot(p)] # None
  PROVE  cache[Slot(p)] \in Blobs /\ cache[Slot(p)].text = input[p]
<1>1. Slot(p) \in Slots /\ Slot(p)[3] = input[p]
  BY SlotFacts DEF PhaseInv
<1> QED BY <1>1 DEF CacheInv, TypeOK, FileTypes, Ciphertexts

(* A filter keeps its slot as long as it keeps its variables.                 *)
LEMMA SlotKept == ASSUME UNCHANGED localVars, NEW p \in Procs PROVE Slot(p)' = Slot(p)
BY DEF localVars, Slot, Cleaning

-----------------------------------------------------------------------------
(* The types of the repository's state are kept.                              *)
LEMMA RepoTypesStep == TypeOK /\ [Next]_vars => RepoTypes'
<1> SUFFICES ASSUME TypeOK, [Next]_vars PROVE RepoTypes'
  OBVIOUS
<1> USE KeysFacts, MadeFacts, GensFacts DEF TypeOK, RepoTypes, Goto, End,
     repoVars, gitVars, counters, localVars
<1>1. ASSUME NEW p \in Procs, Start(p) PROVE RepoTypes'
  BY <1>1 DEF Start, StartClean, StartSmudge, Begin
<1>2. ASSUME NEW p \in Procs, Read(p) PROVE RepoTypes'
  BY <1>2 DEF Read, ReadPub, ReadKey, ReadDir, ReadStaged
<1>3. ASSUME NEW p \in Procs, Clean(p) PROVE RepoTypes'
  BY <1>3 DEF Clean, PassThrough, RefuseDamaged, CleanLocked, Probe, Serve,
     Purge, Reuse, Encrypt
<1>4. ASSUME NEW p \in Procs, Smudge(p) PROVE RepoTypes'
  <2>1. CASE ReadLocal(p)
    BY <2>1 DEF ReadLocal
  <2>2. CASE CheckStale(p)
    BY <2>2 DEF CheckStale
  <2>3. CASE SaveRefreshed(p)
    BY <2>3 DEF SaveRefreshed, LocalTypes
  <2>4. CASE Reread(p)
    BY <2>4 DEF Reread
  <2>5. CASE SmudgeThrough(p)
    BY <2>5 DEF SmudgeThrough
  <2>6. CASE Decrypt(p)
    BY <2>6 DEF Decrypt
  <2>7. CASE SmudgeFails(p)
    BY <2>7 DEF SmudgeFails
  <2> QED BY <1>4, <2>1, <2>2, <2>3, <2>4, <2>5, <2>6, <2>7 DEF Smudge
<1>5. ASSUME NEW p \in Procs, Store(p) PROVE RepoTypes'
  BY <1>5 DEF Store, Persist, Rename, Prune
<1>6. ASSUME NEW p \in Procs, Finish(p) PROVE RepoTypes'
  BY <1>6 DEF Finish
<1>7. ASSUME NEW p \in Procs, Kill(p) PROVE RepoTypes'
  BY <1>7 DEF Kill
<1>8. CASE Environment
  <2>1. ASSUME NEW f \in Files, DamageFile(f) PROVE RepoTypes'
    BY <2>1 DEF DamageFile
  <2>2. ASSUME NEW f \in Files, NEW t \in Texts, Edit(f, t) PROVE RepoTypes'
    BY <2>2 DEF Edit
  <2>3. ASSUME NEW s \in Slots, DamageEntry(s) PROVE RepoTypes'
    BY <2>3 DEF DamageEntry
  <2>4. CASE RotatePub
    BY <2>4 DEF RotatePub
  <2>5. CASE RestorePub
    BY <2>5 DEF RestorePub
  <2>6. CASE SaveKey
    BY <2>6 DEF SaveKey
  <2>7. CASE DropKey
    BY <2>7 DEF DropKey
  <2>8. ASSUME NEW gone, ClearCache(gone) PROVE RepoTypes'
    BY <2>8 DEF ClearCache
  <2> QED BY <1>8, <2>1, <2>2, <2>3, <2>4, <2>5, <2>6, <2>7, <2>8
       DEF Environment
<1>9. CASE UNCHANGED vars
  BY <1>9 DEF vars
<1> QED BY <1>1, <1>2, <1>3, <1>4, <1>5, <1>6, <1>7, <1>8, <1>9 DEF Next, Filter

(* The types of files and cache are kept: Git gets output, not nothing.       *)
LEMMA FileTypesStep ==
  TypeOK /\ PhaseInv /\ StoreInv /\ OutputInv /\ [Next]_vars => FileTypes'
<1> SUFFICES ASSUME TypeOK, PhaseInv, StoreInv, OutputInv, [Next]_vars
     PROVE FileTypes'
  OBVIOUS
<1> USE BlobFacts DEF TypeOK, FileTypes, LocalTypes, StepTypes, PhaseInv,
     StoreInv, OutputInv, Cleaning, Ciphertexts, Contents, Opens, Goto, End,
     repoVars, gitVars, counters, localVars
<1>1. ASSUME NEW p \in Procs, Start(p) PROVE FileTypes'
  BY <1>1 DEF Start, StartClean, StartSmudge, Begin
<1>2. ASSUME NEW p \in Procs, Read(p) PROVE FileTypes'
  BY <1>2 DEF Read, ReadPub, ReadKey, ReadDir, ReadStaged
<1>3. ASSUME NEW p \in Procs, Clean(p) PROVE FileTypes'
  BY <1>3 DEF Clean, PassThrough, RefuseDamaged, CleanLocked, Probe, Serve,
     Purge, Reuse, Encrypt
<1>4. ASSUME NEW p \in Procs, Smudge(p) PROVE FileTypes'
  BY <1>4 DEF Smudge, ReadLocal, CheckStale, SaveRefreshed, Reread,
     SmudgeThrough, Decrypt, SmudgeFails
<1>5. ASSUME NEW p \in Procs, Store(p) PROVE FileTypes'
  <2>1. CASE Persist(p)
    BY <2>1 DEF Persist
  <2>2. CASE Rename(p)
    BY <2>2 DEF Rename, Entry
  <2>3. ASSUME NEW gone, Prune(p, gone) PROVE FileTypes'
    BY <2>3 DEF Prune
  <2> QED BY <1>5, <2>1, <2>2, <2>3 DEF Store
<1>6. ASSUME NEW p \in Procs, Finish(p) PROVE FileTypes'
  <2>1. out[p] \in Contents /\ input[p] \in Contents /\ op[p] \in {"add", "status", "checkout"}
    BY <1>6 DEF Finish
  <2>2. CASE op[p] = "add"
    <3>1. index' = [index EXCEPT ![file[p]] = out[p]] /\ UNCHANGED <<work, cache>>
      BY <1>6, <2>2 DEF Finish
    <3> QED BY <2>1, <3>1
  <2>3. CASE op[p] = "status"
    BY <1>6, <2>1, <2>3 DEF Finish
  <2>4. CASE op[p] = "checkout"
    BY <1>6, <2>1, <2>4 DEF Finish
  <2> QED BY <2>1, <2>2, <2>3, <2>4
<1>7. ASSUME NEW p \in Procs, Kill(p) PROVE FileTypes'
  BY <1>7 DEF Kill
<1>8. CASE Environment
  BY <1>8 DEF Environment, DamageFile, Edit, DamageEntry, RotatePub,
     RestorePub, SaveKey, DropKey, ClearCache
<1>9. CASE UNCHANGED vars
  BY <1>9 DEF vars
<1> QED BY <1>1, <1>2, <1>3, <1>4, <1>5, <1>6, <1>7, <1>8, <1>9 DEF Next, Filter

(* The types of the program counters are kept.                                *)
LEMMA StepTypesStep == TypeOK /\ [Next]_vars => StepTypes'
<1> SUFFICES ASSUME TypeOK, [Next]_vars PROVE StepTypes'
  OBVIOUS
<1> USE DEF TypeOK, StepTypes, PcValues, Goto, End, repoVars, gitVars,
     counters, localVars
<1>1. ASSUME NEW p \in Procs, Start(p) PROVE StepTypes'
  BY <1>1 DEF Start, StartClean, StartSmudge, Begin
<1>2. ASSUME NEW p \in Procs, Read(p) PROVE StepTypes'
  BY <1>2 DEF Read, ReadPub, ReadKey, ReadDir, ReadStaged
<1>3. ASSUME NEW p \in Procs, Clean(p) PROVE StepTypes'
  BY <1>3 DEF Clean, PassThrough, RefuseDamaged, CleanLocked, Probe, Serve,
     Purge, Reuse, Encrypt
<1>4. ASSUME NEW p \in Procs, Smudge(p) PROVE StepTypes'
  BY <1>4 DEF Smudge, ReadLocal, CheckStale, SaveRefreshed, Reread,
     SmudgeThrough, Decrypt, SmudgeFails
<1>5. ASSUME NEW p \in Procs, Store(p) PROVE StepTypes'
  BY <1>5 DEF Store, Persist, Rename, Prune
<1>6. ASSUME NEW p \in Procs, Finish(p) PROVE StepTypes'
  BY <1>6 DEF Finish
<1>7. ASSUME NEW p \in Procs, Kill(p) PROVE StepTypes'
  BY <1>7 DEF Kill
<1>8. CASE Environment
  BY <1>8 DEF Environment, DamageFile, Edit, DamageEntry, RotatePub,
     RestorePub, SaveKey, DropKey, ClearCache
<1>9. CASE UNCHANGED vars
  BY <1>9 DEF vars
<1> QED BY <1>1, <1>2, <1>3, <1>4, <1>5, <1>6, <1>7, <1>8, <1>9 DEF Next, Filter

(* The types of the filters' own variables are kept.                          *)
LEMMA LocalTypesStep ==
  TypeOK /\ PhaseInv /\ SearchInv /\ StoreInv /\ [Next]_vars => LocalTypes'
<1> SUFFICES ASSUME TypeOK, PhaseInv, SearchInv, StoreInv, [Next]_vars
     PROVE LocalTypes'
  OBVIOUS
<1> USE ElsewhereFacts, KeysFacts DEF TypeOK, RepoTypes, FileTypes, LocalTypes,
     Contents, Ciphertexts, Goto, End, repoVars, gitVars, counters, localVars
<1>1. ASSUME NEW p \in Procs, Start(p) PROVE LocalTypes'
  BY <1>1 DEF Start, StartClean, StartSmudge, Begin
<1>2. ASSUME NEW p \in Procs, Read(p) PROVE LocalTypes'
  <2>1. CASE ReadPub(p)
    BY <2>1 DEF ReadPub
  <2>2. CASE ReadKey(p)
    BY <2>2 DEF ReadKey
  <2>3. CASE ReadDir(p)
    BY <2>3 DEF ReadDir, PhaseInv
  <2>4. CASE ReadStaged(p)
    BY <2>4 DEF ReadStaged, PhaseInv
  <2> QED BY <1>2, <2>1, <2>2, <2>3, <2>4 DEF Read
<1>3. ASSUME NEW p \in Procs, Clean(p) PROVE LocalTypes'
  <2>1. CASE PassThrough(p)
    BY <2>1 DEF PassThrough
  <2>2. CASE RefuseDamaged(p)
    BY <2>2 DEF RefuseDamaged
  <2>3. CASE CleanLocked(p)
    BY <2>3 DEF CleanLocked
  <2>4. CASE Probe(p)
    BY <2>4 DEF Probe
  <2>5. CASE Serve(p)
    BY <2>5, SlotFacts DEF Serve
  <2>6. CASE Purge(p)
    BY <2>6 DEF Purge
  <2>7. CASE Reuse(p)
    BY <2>7 DEF Reuse
  <2>8. CASE Encrypt(p)
    BY <2>8, FreshBlob DEF Encrypt
  <2> QED BY <1>3, <2>1, <2>2, <2>3, <2>4, <2>5, <2>6, <2>7, <2>8 DEF Clean
<1>4. ASSUME NEW p \in Procs, Smudge(p) PROVE LocalTypes'
  <2>1. CASE ReadLocal(p)
    BY <2>1 DEF ReadLocal
  <2>2. CASE CheckStale(p)
    BY <2>2 DEF CheckStale
  <2>3. CASE SaveRefreshed(p)
    BY <2>3 DEF SaveRefreshed
  <2>4. CASE Reread(p)
    BY <2>4 DEF Reread
  <2>5. CASE SmudgeThrough(p)
    BY <2>5 DEF SmudgeThrough
  <2>6. CASE Decrypt(p)
    BY <2>6, BlobFacts DEF Decrypt, Opens
  <2>7. CASE SmudgeFails(p)
    BY <2>7 DEF SmudgeFails
  <2> QED BY <1>4, <2>1, <2>2, <2>3, <2>4, <2>5, <2>6, <2>7 DEF Smudge
<1>5. ASSUME NEW p \in Procs, Store(p) PROVE LocalTypes'
  BY <1>5 DEF Store, Persist, Rename, Prune
<1>6. ASSUME NEW p \in Procs, Finish(p) PROVE LocalTypes'
  BY <1>6 DEF Finish
<1>7. ASSUME NEW p \in Procs, Kill(p) PROVE LocalTypes'
  BY <1>7 DEF Kill
<1>8. CASE Environment
  BY <1>8 DEF Environment, DamageFile, Edit, DamageEntry, RotatePub,
     RestorePub, SaveKey, DropKey, ClearCache
<1>9. CASE UNCHANGED vars
  BY <1>9 DEF vars
<1> QED BY <1>1, <1>2, <1>3, <1>4, <1>5, <1>6, <1>7, <1>8, <1>9 DEF Next, Filter

(* No step is taken before what it needs has been read.                       *)
LEMMA PhaseStep == TypeOK /\ PhaseInv /\ [Next]_vars => PhaseInv'
<1> SUFFICES ASSUME TypeOK, PhaseInv, [Next]_vars PROVE PhaseInv'
  OBVIOUS
<1> USE BlobFacts, ElsewhereFacts, ValuesDiffer DEF PhaseInv, TypeOK,
     RepoTypes, FileTypes, StepTypes, LocalTypes, Cleaning, Goto, End,
     repoVars, gitVars, counters, localVars
<1>1. ASSUME NEW p \in Procs, Start(p) PROVE PhaseInv'
  BY <1>1 DEF Start, StartClean, StartSmudge, Begin
<1>2. ASSUME NEW p \in Procs, Read(p) PROVE PhaseInv'
  BY <1>2 DEF Read, ReadPub, ReadKey, ReadDir, ReadStaged
<1>3. ASSUME NEW p \in Procs, Clean(p) PROVE PhaseInv'
  BY <1>3 DEF Clean, PassThrough, RefuseDamaged, CleanLocked, Probe, Serve,
     Purge, Reuse, Encrypt
<1>4. ASSUME NEW p \in Procs, Smudge(p) PROVE PhaseInv'
  BY <1>4 DEF Smudge, ReadLocal, CheckStale, SaveRefreshed, Reread,
     SmudgeThrough, Decrypt, SmudgeFails
<1>5. ASSUME NEW p \in Procs, Store(p) PROVE PhaseInv'
  BY <1>5 DEF Store, Persist, Rename, Prune
<1>6. ASSUME NEW p \in Procs, Finish(p) PROVE PhaseInv'
  BY <1>6 DEF Finish
<1>7. ASSUME NEW p \in Procs, Kill(p) PROVE PhaseInv'
  BY <1>7 DEF Kill
<1>8. CASE Environment
  BY <1>8 DEF Environment, DamageFile, Edit, DamageEntry, RotatePub,
     RestorePub, SaveKey, DropKey, ClearCache
<1>9. CASE UNCHANGED vars
  BY <1>9 DEF vars
<1> QED BY <1>1, <1>2, <1>3, <1>4, <1>5, <1>6, <1>7, <1>8, <1>9 DEF Next, Filter

(* Only plaintext reaches the cache; a matching staged blob is not passed     *)
(* over.                                                                      *)
LEMMA SearchStep == TypeOK /\ PhaseInv /\ SearchInv /\ [Next]_vars => SearchInv'
<1> SUFFICES ASSUME TypeOK, PhaseInv, SearchInv, [Next]_vars PROVE SearchInv'
  OBVIOUS
<1> USE BlobFacts, ElsewhereFacts, ValuesDiffer DEF PhaseInv, TypeOK,
     RepoTypes, FileTypes, StepTypes, LocalTypes, SearchInv, Cleaning, Matches,
     Opens, Goto, End, repoVars, gitVars, counters, localVars
<1>1. ASSUME NEW p \in Procs, Start(p) PROVE SearchInv'
  BY <1>1 DEF Start, StartClean, StartSmudge, Begin
<1>2. ASSUME NEW p \in Procs, Read(p) PROVE SearchInv'
  BY <1>2 DEF Read, ReadPub, ReadKey, ReadDir, ReadStaged
<1>3. ASSUME NEW p \in Procs, Clean(p) PROVE SearchInv'
  BY <1>3 DEF Clean, PassThrough, RefuseDamaged, CleanLocked, Probe, Serve,
     Purge, Reuse, Encrypt
<1>4. ASSUME NEW p \in Procs, Smudge(p) PROVE SearchInv'
  BY <1>4 DEF Smudge, ReadLocal, CheckStale, SaveRefreshed, Reread,
     SmudgeThrough, Decrypt, SmudgeFails
<1>5. ASSUME NEW p \in Procs, Store(p) PROVE SearchInv'
  BY <1>5 DEF Store, Persist, Rename, Prune
<1>6. ASSUME NEW p \in Procs, Finish(p) PROVE SearchInv'
  BY <1>6 DEF Finish
<1>7. ASSUME NEW p \in Procs, Kill(p) PROVE SearchInv'
  BY <1>7 DEF Kill
<1>8. CASE Environment
  BY <1>8 DEF Environment, DamageFile, Edit, DamageEntry, RotatePub,
     RestorePub, SaveKey, DropKey, ClearCache
<1>9. CASE UNCHANGED vars
  BY <1>9 DEF vars
<1> QED BY <1>1, <1>2, <1>3, <1>4, <1>5, <1>6, <1>7, <1>8, <1>9 DEF Next, Filter

(* What is about to be cached stays ciphertext of its plaintext.              *)
LEMMA StoreStep ==
  TypeOK /\ PhaseInv /\ SearchInv /\ StoreInv /\ [Next]_vars => StoreInv'
<1> SUFFICES ASSUME TypeOK, PhaseInv, SearchInv, StoreInv, [Next]_vars
     PROVE StoreInv'
  OBVIOUS
<1> USE BlobFacts, ElsewhereFacts, ValuesDiffer DEF PhaseInv, SearchInv,
     StoreInv, Cleaning, Matches, Opens, TypeOK, LocalTypes, StepTypes, Goto,
     End, repoVars, gitVars, counters, localVars
<1>1. ASSUME NEW p \in Procs, Start(p) PROVE StoreInv'
  BY <1>1 DEF Start, StartClean, StartSmudge, Begin
<1>2. ASSUME NEW p \in Procs, Read(p) PROVE StoreInv'
  BY <1>2 DEF Read, ReadPub, ReadKey, ReadDir, ReadStaged
<1>3. ASSUME NEW p \in Procs, Clean(p) PROVE StoreInv'
  <2>1. CASE PassThrough(p)
    BY <2>1 DEF PassThrough
  <2>2. CASE RefuseDamaged(p)
    BY <2>2 DEF RefuseDamaged
  <2>3. CASE CleanLocked(p)
    BY <2>3 DEF CleanLocked
  <2>4. CASE Probe(p)
    BY <2>4 DEF Probe
  <2>5. CASE Serve(p)
    BY <2>5 DEF Serve
  <2>6. CASE Purge(p)
    BY <2>6 DEF Purge
  <2>7. CASE Reuse(p)
    BY <2>7 DEF Reuse
  <2>8. CASE Encrypt(p)
    <3>1. /\ out'[p] \in Blobs /\ out'[p].text = input[p]
          /\ \A q \in Procs \ {p} : out'[q] = out[q]
          /\ pc' = [pc EXCEPT ![p] = IF held[p] = 0 THEN "finish" ELSE "persist"]
          /\ UNCHANGED <<op, input, held>>
      BY <2>8, FreshBlob
    <3>2. pc[p] = "encrypt"
      BY <2>8 DEF Encrypt
    <3> QED BY <3>1, <3>2
  <2> QED BY <1>3, <2>1, <2>2, <2>3, <2>4, <2>5, <2>6, <2>7, <2>8 DEF Clean
<1>4. ASSUME NEW p \in Procs, Smudge(p) PROVE StoreInv'
  <2>1. CASE ReadLocal(p)
    BY <2>1 DEF ReadLocal
  <2>2. CASE CheckStale(p)
    BY <2>2 DEF CheckStale
  <2>3. CASE SaveRefreshed(p)
    BY <2>3 DEF SaveRefreshed
  <2>4. CASE Reread(p)
    BY <2>4 DEF Reread
  <2>5. CASE SmudgeThrough(p)
    BY <2>5 DEF SmudgeThrough
  <2>6. CASE Decrypt(p)
    BY <2>6, GensFacts DEF Decrypt
  <2>7. CASE SmudgeFails(p)
    BY <2>7 DEF SmudgeFails
  <2> QED BY <1>4, <2>1, <2>2, <2>3, <2>4, <2>5, <2>6, <2>7 DEF Smudge
<1>5. ASSUME NEW p \in Procs, Store(p) PROVE StoreInv'
  BY <1>5 DEF Store, Persist, Rename, Prune
<1>6. ASSUME NEW p \in Procs, Finish(p) PROVE StoreInv'
  BY <1>6 DEF Finish
<1>7. ASSUME NEW p \in Procs, Kill(p) PROVE StoreInv'
  BY <1>7 DEF Kill
<1>8. CASE Environment
  BY <1>8 DEF Environment, DamageFile, Edit, DamageEntry, RotatePub,
     RestorePub, SaveKey, DropKey, ClearCache
<1>9. CASE UNCHANGED vars
  BY <1>9 DEF vars
<1> QED BY <1>1, <1>2, <1>3, <1>4, <1>5, <1>6, <1>7, <1>8, <1>9 DEF Next, Filter

(* What is about to be returned says what the filter was started with.        *)
LEMMA OutputStep ==
  TypeOK /\ PhaseInv /\ SearchInv /\ StoreInv /\ CacheInv /\ OutputInv /\
  [Next]_vars => OutputInv'
<1> SUFFICES ASSUME TypeOK, PhaseInv, SearchInv, StoreInv, CacheInv, OutputInv,
     [Next]_vars PROVE OutputInv'
  OBVIOUS
<1> USE PlainFacts DEF PhaseInv, SearchInv, StoreInv, Cleaning, Matches, Opens,
     TypeOK, LocalTypes, StepTypes, OutputInv, Cleaned, Goto, End, repoVars,
     gitVars, counters, localVars
<1>1. ASSUME NEW p \in Procs, Start(p) PROVE OutputInv'
  BY <1>1 DEF Start, StartClean, StartSmudge, Begin
<1>2. ASSUME NEW p \in Procs, Read(p) PROVE OutputInv'
  BY <1>2 DEF Read, ReadPub, ReadKey, ReadDir, ReadStaged
<1>3. ASSUME NEW p \in Procs, Clean(p) PROVE OutputInv'
  <2>1. CASE PassThrough(p)
    BY <2>1, ValuesDiffer DEF PassThrough, Contents, Ciphertexts
  <2>2. CASE RefuseDamaged(p)
    BY <2>2 DEF RefuseDamaged
  <2>3. CASE CleanLocked(p)
    BY <2>3 DEF CleanLocked
  <2>4. CASE Probe(p)
    BY <2>4 DEF Probe
  <2>5. CASE Serve(p)
    BY <2>5, ServedEntry DEF Serve, Contents, Ciphertexts
  <2>6. CASE Purge(p)
    BY <2>6 DEF Purge
  <2>7. CASE Reuse(p)
    BY <2>7 DEF Reuse
  <2>8. CASE Encrypt(p)
    <3>1. /\ out'[p] \in Blobs /\ out'[p].text = input[p]
          /\ \A q \in Procs \ {p} : out'[q] = out[q]
          /\ pc' = [pc EXCEPT ![p] = IF held[p] = 0 THEN "finish" ELSE "persist"]
          /\ UNCHANGED <<op, input, held>>
      BY <2>8, FreshBlob
    <3>2. pc[p] = "encrypt"
      BY <2>8 DEF Encrypt
    <3> QED BY <3>1, <3>2 DEF Contents, Ciphertexts
  <2> QED BY <1>3, <2>1, <2>2, <2>3, <2>4, <2>5, <2>6, <2>7, <2>8 DEF Clean
<1>4. ASSUME NEW p \in Procs, Smudge(p) PROVE OutputInv'
  <2>1. CASE ReadLocal(p)
    BY <2>1 DEF ReadLocal
  <2>2. CASE CheckStale(p)
    BY <2>2 DEF CheckStale
  <2>3. CASE SaveRefreshed(p)
    BY <2>3 DEF SaveRefreshed
  <2>4. CASE Reread(p)
    BY <2>4 DEF Reread
  <2>5. CASE SmudgeThrough(p)
    BY <2>5 DEF SmudgeThrough
  <2>6. CASE Decrypt(p)
    BY <2>6 DEF Decrypt
  <2>7. CASE SmudgeFails(p)
    BY <2>7 DEF SmudgeFails
  <2> QED BY <1>4, <2>1, <2>2, <2>3, <2>4, <2>5, <2>6, <2>7 DEF Smudge
<1>5. ASSUME NEW p \in Procs, Store(p) PROVE OutputInv'
  <2>1. CASE Persist(p)
    BY <2>1, StoredOutput DEF Persist
  <2>2. CASE Rename(p)
    BY <2>2, StoredOutput DEF Rename
  <2>3. ASSUME NEW gone, Prune(p, gone) PROVE OutputInv'
    BY <2>3, StoredOutput DEF Prune
  <2> QED BY <1>5, <2>1, <2>2, <2>3 DEF Store
<1>6. ASSUME NEW p \in Procs, Finish(p) PROVE OutputInv'
  BY <1>6 DEF Finish
<1>7. ASSUME NEW p \in Procs, Kill(p) PROVE OutputInv'
  BY <1>7 DEF Kill
<1>8. CASE Environment
  BY <1>8 DEF Environment, DamageFile, Edit, DamageEntry, RotatePub,
     RestorePub, SaveKey, DropKey, ClearCache
<1>9. CASE UNCHANGED vars
  BY <1>9 DEF vars
<1> QED BY <1>1, <1>2, <1>3, <1>4, <1>5, <1>6, <1>7, <1>8, <1>9 DEF Next, Filter

(* Entries stay ciphertext of the plaintext of their slot.                    *)
LEMMA CacheStep ==
  TypeOK /\ PhaseInv /\ SearchInv /\ StoreInv /\ CacheInv /\ [Next]_vars => CacheInv'
<1> SUFFICES ASSUME TypeOK, PhaseInv, SearchInv, StoreInv, CacheInv,
     [Next]_vars PROVE CacheInv'
  OBVIOUS
<1> USE BlobFacts, ElsewhereFacts, ValuesDiffer DEF PhaseInv, SearchInv,
     StoreInv, Cleaning, Matches, Opens, TypeOK, LocalTypes, StepTypes,
     FileTypes, CacheInv, Goto, End, repoVars, gitVars, counters, localVars
<1>1. ASSUME NEW p \in Procs, Start(p) PROVE CacheInv'
  BY <1>1 DEF Start, StartClean, StartSmudge, Begin, Slot
<1>2. ASSUME NEW p \in Procs, Read(p) PROVE CacheInv'
  <2>1. CASE ReadPub(p)
    BY <2>1 DEF ReadPub, Slot
  <2>2. CASE ReadKey(p)
    BY <2>2 DEF ReadKey, Slot
  <2>3. CASE ReadDir(p)
    BY <2>3 DEF ReadDir, Slot
  <2>4. CASE ReadStaged(p)
    BY <2>4 DEF ReadStaged, Slot
  <2> QED BY <1>2, <2>1, <2>2, <2>3, <2>4 DEF Read
<1>3. ASSUME NEW p \in Procs, Clean(p) PROVE CacheInv'
  <2>1. CASE PassThrough(p)
    BY <2>1 DEF PassThrough, Slot
  <2>2. CASE RefuseDamaged(p)
    BY <2>2 DEF RefuseDamaged, Slot
  <2>3. CASE CleanLocked(p)
    BY <2>3 DEF CleanLocked, Slot
  <2>4. CASE Probe(p)
    <3>1. \A q \in Procs : Slot(q)' = Slot(q)
      BY <2>4, SlotKept DEF Probe
    <3> QED BY <2>4, <3>1 DEF Probe
  <2>5. CASE Serve(p)
    BY <2>5 DEF Serve, Slot
  <2>6. CASE Purge(p)
    <3>1. \A s \in Slots : cache'[s] \in {cache[s], None}
      BY <2>6 DEF Purge, FileTypes
    <3>2. \A q \in Procs : pc'[q] = "serve" => pc[q] = "serve" /\ Slot(q) \in Slots
      BY <2>6, SlotFacts DEF Purge
    <3>3. \A q \in Procs : Slot(q)' = Slot(q)
      BY <2>6, SlotKept DEF Purge
    <3> QED BY <3>1, <3>2, <3>3, NoneFacts
  <2>7. CASE Reuse(p)
    BY <2>7 DEF Reuse, Slot
  <2>8. CASE Encrypt(p)
    BY <2>8, FreshBlob DEF Slot
  <2> QED BY <1>3, <2>1, <2>2, <2>3, <2>4, <2>5, <2>6, <2>7, <2>8 DEF Clean
<1>4. ASSUME NEW p \in Procs, Smudge(p) PROVE CacheInv'
  <2>1. CASE ReadLocal(p)
    BY <2>1 DEF ReadLocal, Slot
  <2>2. CASE CheckStale(p)
    BY <2>2 DEF CheckStale, Slot
  <2>3. CASE SaveRefreshed(p)
    BY <2>3 DEF SaveRefreshed, Slot
  <2>4. CASE Reread(p)
    BY <2>4 DEF Reread, Slot
  <2>5. CASE SmudgeThrough(p)
    BY <2>5 DEF SmudgeThrough, Slot
  <2>6. CASE Decrypt(p)
    BY <2>6 DEF Decrypt, Slot
  <2>7. CASE SmudgeFails(p)
    BY <2>7 DEF SmudgeFails, Slot
  <2> QED BY <1>4, <2>1, <2>2, <2>3, <2>4, <2>5, <2>6, <2>7 DEF Smudge
<1>5. ASSUME NEW p \in Procs, Store(p) PROVE CacheInv'
  <2>1. CASE Persist(p)
    BY <2>1 DEF Persist, Slot
  <2>2. CASE Rename(p)
    <3>1. \A s \in Slots : cache'[s] # cache[s] => s = Slot(p) /\ cache'[s] = Entry(p)
      BY <2>2 DEF Rename, FileTypes
    <3>2. \A q \in Procs : pc'[q] = "serve" => pc[q] = "serve" /\ Slot(q) \in Slots
      BY <2>2, SlotFacts DEF Rename
    <3>3. \A q \in Procs : Slot(q)' = Slot(q)
      BY <2>2, SlotKept DEF Rename
    <3>4. Entry(p) \in Blobs /\ Entry(p).text = Slot(p)[3]
      BY <2>2, StoredEntry DEF Rename
    <3>5. \A s \in Slots : cache'[s] \in Blobs => cache'[s].text = s[3]
      BY <3>1, <3>4
    <3>6. \A q \in Procs : pc'[q] = "serve" => cache'[Slot(q)'] # Damaged
      BY <3>1, <3>2, <3>3, <3>4, NoneFacts
    <3> QED BY <3>5, <3>6
  <2>3. ASSUME NEW gone, Prune(p, gone) PROVE CacheInv'
    <3>1. \A s \in Slots : cache'[s] \in {cache[s], None}
      BY <2>3 DEF Prune, FileTypes
    <3>2. \A q \in Procs : pc'[q] = "serve" => pc[q] = "serve" /\ Slot(q) \in Slots
      BY <2>3, SlotFacts DEF Prune
    <3>3. \A q \in Procs : Slot(q)' = Slot(q)
      BY <2>3, SlotKept DEF Prune
    <3> QED BY <3>1, <3>2, <3>3, NoneFacts
  <2> QED BY <1>5, <2>1, <2>2, <2>3 DEF Store
<1>6. ASSUME NEW p \in Procs, Finish(p) PROVE CacheInv'
  BY <1>6 DEF Finish, Slot
<1>7. ASSUME NEW p \in Procs, Kill(p) PROVE CacheInv'
  BY <1>7 DEF Kill, Slot
<1>8. CASE Environment
  <2>1. ASSUME NEW f \in Files, DamageFile(f) PROVE CacheInv'
    BY <2>1 DEF DamageFile, Slot
  <2>2. ASSUME NEW f \in Files, NEW t \in Texts, Edit(f, t) PROVE CacheInv'
    BY <2>2 DEF Edit, Slot
  <2>3. ASSUME NEW s \in Slots, DamageEntry(s) PROVE CacheInv'
    BY <2>3 DEF DamageEntry, Slot
  <2>4. CASE RotatePub
    BY <2>4 DEF RotatePub, Slot
  <2>5. CASE RestorePub
    BY <2>5 DEF RestorePub, Slot
  <2>6. CASE SaveKey
    BY <2>6 DEF SaveKey, Slot
  <2>7. CASE DropKey
    BY <2>7 DEF DropKey, Slot
  <2>8. ASSUME NEW gone, ClearCache(gone) PROVE CacheInv'
    <3>1. \A s \in Slots : cache'[s] \in {cache[s], None}
      BY <2>8 DEF ClearCache, FileTypes
    <3>2. \A q \in Procs : pc'[q] = "serve" => pc[q] = "serve" /\ Slot(q) \in Slots
      BY <2>8, SlotFacts DEF ClearCache
    <3>3. \A q \in Procs : Slot(q)' = Slot(q)
      BY <2>8, SlotKept DEF ClearCache
    <3> QED BY <3>1, <3>2, <3>3, NoneFacts
  <2> QED BY <1>8, <2>1, <2>2, <2>3, <2>4, <2>5, <2>6, <2>7, <2>8
       DEF Environment
<1>9. CASE UNCHANGED vars
  BY <1>9 DEF vars, Slot
<1> QED BY <1>1, <1>2, <1>3, <1>4, <1>5, <1>6, <1>7, <1>8, <1>9 DEF Next, Filter

(* While repo.pub keeps still under the filters, generations do not mix.      *)
LEMMA GenerationStep ==
  TypeOK /\ PhaseInv /\ SearchInv /\ StoreInv /\ CacheInv /\ GenerationInv
  /\ [Next]_vars => GenerationInv'
<1> SUFFICES ASSUME TypeOK, PhaseInv, SearchInv, StoreInv, CacheInv,
     GenerationInv, [Next]_vars PROVE GenerationInv'
  OBVIOUS
<1> USE BlobFacts, ElsewhereFacts, ValuesDiffer DEF PhaseInv, SearchInv,
     StoreInv, Cleaning, Matches, Opens, TypeOK, LocalTypes, StepTypes,
     FileTypes, GenerationInv, Goto, End, repoVars, gitVars, counters,
     localVars
<1>1. ASSUME NEW p \in Procs, Start(p) PROVE GenerationInv'
  BY <1>1 DEF Start, StartClean, StartSmudge, Begin
<1>2. ASSUME NEW p \in Procs, Read(p) PROVE GenerationInv'
  <2>1. CASE ReadPub(p)
    BY <2>1 DEF ReadPub
  <2>2. CASE ReadKey(p)
    BY <2>2 DEF ReadKey
  <2>3. CASE ReadDir(p)
    <3>1. /\ pc[p] = "dir" /\ pc' = [pc EXCEPT ![p] = IF Cleaning(p) THEN "staged" ELSE "smudge"]
          /\ dir' = [dir EXCEPT ![p] = pub]
          /\ UNCHANGED <<op, input, held, recipient, out, cache>>
          /\ ~mixed' => ~mixed /\ (Cleaning(p) => recipient[p] = pub)
      BY <2>3 DEF ReadDir
    <3>2. ~mixed' => \A q \in Procs : Cleaning(q) /\ pc'[q] \notin {"idle", "pub", "key", "dir"} =>
            recipient[q] = dir'[q]
      BY <3>1
    <3> QED BY <3>1, <3>2
  <2>4. CASE ReadStaged(p)
    BY <2>4 DEF ReadStaged
  <2> QED BY <1>2, <2>1, <2>2, <2>3, <2>4 DEF Read
<1>3. ASSUME NEW p \in Procs, Clean(p) PROVE GenerationInv'
  <2>1. CASE PassThrough(p)
    <3>1. ~(input[p] \in Texts /\ recipient[p] = held[p])
      BY <2>1, ValuesDiffer, GensFacts DEF PassThrough, Ciphertexts
    <3>2. /\ pc[p] = "clean" /\ pc' = [pc EXCEPT ![p] = "finish"]
          /\ \A q \in Procs \ {p} : out'[q] = out[q]
          /\ UNCHANGED <<op, input, held, recipient, dir, mixed, cache>>
      BY <2>1 DEF PassThrough
    <3> QED BY <3>1, <3>2
  <2>2. CASE RefuseDamaged(p)
    BY <2>2 DEF RefuseDamaged
  <2>3. CASE CleanLocked(p)
    BY <2>3 DEF CleanLocked
  <2>4. CASE Probe(p)
    BY <2>4 DEF Probe
  <2>5. CASE Serve(p)
    <3>1. recipient[p] = dir[p] /\ recipient[p] = held[p] /\ cache[Slot(p)] # None /\ ~mixed =>
            cache[Slot(p)] \in Blobs /\ cache[Slot(p)].gen = held[p]
      BY <2>5, SlotFacts, ServedEntry DEF Serve
    <3>2. /\ \A q \in Procs \ {p} : out'[q] = out[q] /\ pc'[q] = pc[q]
          /\ \/ pc'[p] = "reuse"
             \/ pc'[p] = "finish" /\ cache[Slot(p)] # None /\ out'[p] = cache[Slot(p)]
          /\ pc[p] = "serve"
          /\ UNCHANGED <<op, input, held, recipient, dir, mixed, cache>>
      BY <2>5 DEF Serve
    <3> QED BY <3>1, <3>2
  <2>6. CASE Purge(p)
    <3>1. \A s \in Slots : cache'[s] \in {cache[s], None}
      BY <2>6 DEF Purge, FileTypes
    <3> QED BY <2>6, <3>1, NoneFacts DEF Purge
  <2>7. CASE Reuse(p)
    BY <2>7 DEF Reuse
  <2>8. CASE Encrypt(p)
    <3>1. /\ out'[p] \in Blobs /\ out'[p].gen = recipient[p]
          /\ \A q \in Procs \ {p} : out'[q] = out[q]
          /\ pc' = [pc EXCEPT ![p] = IF held[p] = 0 THEN "finish" ELSE "persist"]
          /\ UNCHANGED <<op, input, held, recipient, dir, mixed, cache>>
      BY <2>8, FreshBlob
    <3>2. pc[p] = "encrypt"
      BY <2>8 DEF Encrypt
    <3> QED BY <3>1, <3>2
  <2> QED BY <1>3, <2>1, <2>2, <2>3, <2>4, <2>5, <2>6, <2>7, <2>8 DEF Clean
<1>4. ASSUME NEW p \in Procs, Smudge(p) PROVE GenerationInv'
  <2>1. CASE ReadLocal(p)
    BY <2>1 DEF ReadLocal
  <2>2. CASE CheckStale(p)
    BY <2>2 DEF CheckStale
  <2>3. CASE SaveRefreshed(p)
    BY <2>3 DEF SaveRefreshed
  <2>4. CASE Reread(p)
    BY <2>4 DEF Reread
  <2>5. CASE SmudgeThrough(p)
    BY <2>5 DEF SmudgeThrough
  <2>6. CASE Decrypt(p)
    BY <2>6 DEF Decrypt
  <2>7. CASE SmudgeFails(p)
    BY <2>7 DEF SmudgeFails
  <2> QED BY <1>4, <2>1, <2>2, <2>3, <2>4, <2>5, <2>6, <2>7 DEF Smudge
<1>5. ASSUME NEW p \in Procs, Store(p) PROVE GenerationInv'
  <2>1. CASE Persist(p)
    BY <2>1 DEF Persist
  <2>2. CASE Rename(p)
    <3>1. \A s \in Slots : cache'[s] # cache[s] => s = Slot(p) /\ cache'[s] = Entry(p)
      BY <2>2 DEF Rename, FileTypes
    <3>2. /\ pc[p] = "rename" /\ pc' = [pc EXCEPT ![p] = IF out[p] = staged[p] THEN "finish" ELSE "prune"]
          /\ UNCHANGED <<mixed, op, input, recipient, held, dir, out>>
      BY <2>2 DEF Rename
    <3>3. ~mixed /\ dir[p] = held[p] => Entry(p).gen = held[p]
      BY <3>2 DEF Entry
    <3>4. Slot(p)[1] = dir[p] /\ Slot(p)[2] = held[p]
      BY <3>2, SlotFacts
    <3> QED BY <3>1, <3>2, <3>3, <3>4
  <2>3. ASSUME NEW gone, Prune(p, gone) PROVE GenerationInv'
    <3>1. \A s \in Slots : cache'[s] \in {cache[s], None}
      BY <2>3 DEF Prune, FileTypes
    <3> QED BY <2>3, <3>1, NoneFacts DEF Prune
  <2> QED BY <1>5, <2>1, <2>2, <2>3 DEF Store
<1>6. ASSUME NEW p \in Procs, Finish(p) PROVE GenerationInv'
  BY <1>6 DEF Finish
<1>7. ASSUME NEW p \in Procs, Kill(p) PROVE GenerationInv'
  BY <1>7 DEF Kill
<1>8. CASE Environment
  <2>1. ASSUME NEW f \in Files, DamageFile(f) PROVE GenerationInv'
    BY <2>1 DEF DamageFile
  <2>2. ASSUME NEW f \in Files, NEW t \in Texts, Edit(f, t) PROVE GenerationInv'
    BY <2>2 DEF Edit
  <2>3. ASSUME NEW s \in Slots, DamageEntry(s) PROVE GenerationInv'
    BY <2>3 DEF DamageEntry
  <2>4. CASE RotatePub
    BY <2>4 DEF RotatePub
  <2>5. CASE RestorePub
    BY <2>5 DEF RestorePub
  <2>6. CASE SaveKey
    BY <2>6 DEF SaveKey
  <2>7. CASE DropKey
    BY <2>7 DEF DropKey
  <2>8. ASSUME NEW gone, ClearCache(gone) PROVE GenerationInv'
    <3>1. \A s \in Slots : cache'[s] \in {cache[s], None}
      BY <2>8 DEF ClearCache, FileTypes
    <3> QED BY <2>8, <3>1, NoneFacts DEF ClearCache
  <2> QED BY <1>8, <2>1, <2>2, <2>3, <2>4, <2>5, <2>6, <2>7, <2>8
       DEF Environment
<1>9. CASE UNCHANGED vars
  BY <1>9 DEF vars
<1> QED BY <1>1, <1>2, <1>3, <1>4, <1>5, <1>6, <1>7, <1>8, <1>9 DEF Next, Filter

(* The initial states satisfy the invariant.                                  *)
LEMMA InitIInv == Init => IInv
<1> SUFFICES ASSUME Init PROVE IInv
  OBVIOUS
<1>1. \A s \in Slots : cache[s] # None =>
        /\ cache[s] \in Blobs /\ cache[s].text = s[3]
        /\ s[1] = s[2] => cache[s].gen = s[1]
  BY ElsewhereFacts DEF Init, Slots
<1>2. work \in [Files -> Contents] /\ index \in [Files -> Contents]
  <2>1. PICK text \in [Files -> Texts], g \in 0 .. pub :
          LET blob(f) == [gen |-> g, text |-> text[f], n |-> 0]
          IN  /\ index = [f \in Files |-> IF g = 0 THEN text[f] ELSE blob(f)]
              /\ work  = [f \in Files |-> IF key = g THEN text[f] ELSE index[f]]
    BY DEF Init
  <2>2. \A f \in Files : g # 0 => [gen |-> g, text |-> text[f], n |-> 0] \in Blobs
    BY FilterBoundsType DEF Init, Blobs, Gens
  <2> QED BY <2>1, <2>2 DEF Contents, Ciphertexts
<1>3. pub \in Gens /\ newest \in Gens /\ key \in Keys /\ made \in 0 .. MaxBlobs
  BY FilterBoundsType DEF Init, Gens, Keys
<1>4. TypeOK
  BY <1>1, <1>2, <1>3 DEF Init, TypeOK, RepoTypes, FileTypes, StepTypes,
     LocalTypes,
                          PcValues, Keys, Ciphertexts
<1>5. PhaseInv /\ SearchInv /\ StoreInv /\ OutputInv
  BY DEF Init, PhaseInv, SearchInv, StoreInv, OutputInv, Cleaning, Cleaned
<1>6. CacheInv /\ GenerationInv
  BY <1>1, NoneFacts DEF Init, CacheInv, GenerationInv, Cleaning
<1> QED BY <1>4, <1>5, <1>6 DEF IInv

-----------------------------------------------------------------------------
(* A step that starts and ends no filter and delivers nothing changes nothing *)
(* above.                                                                     *)
LEMMA StutterStep ==
  ASSUME UNCHANGED <<work, index, file, input>>, TypeOK,
         \A q \in Procs : /\ pc'[q] = "idle" <=> pc[q] = "idle"
                          /\ pc'[q] = "finish" <=> pc[q] = "finish"
                          /\ pc[q] = "finish" => out'[q] = out[q]
  PROVE  UNCHANGED Vault!vars
<1>1. UNCHANGED <<[f \in Files |-> Plain(work[f])], [f \in Files |-> Plain(index[f])]>>
  OBVIOUS
<1>2. UNCHANGED [p \in Procs |-> IF pc[p] = "idle" THEN <<>> ELSE <<file[p], Plain(input[p])>>]
  OBVIOUS
<1>3. UNCHANGED [p \in Procs |-> IF pc[p] = "finish" THEN <<Plain(out[p])>> ELSE <<>>]
  OBVIOUS
<1> QED BY <1>1, <1>2, <1>3 DEF Vault!vars

(* A filter that arrives at its end delivers what it has taken.               *)
LEMMA DeliverStep ==
  ASSUME TypeOK, NEW p \in Procs, pc[p] \notin {"idle", "finish"},
         pc' = [pc EXCEPT ![p] = "finish"], UNCHANGED <<work, index, file, input>>,
         \A q \in Procs \ {p} : out'[q] = out[q],
         Plain(out'[p]) = Plain(input[p])
  PROVE  Vault!Deliver(p)
<1>1. /\ \A q \in Procs : pc'[q] = "idle" <=> pc[q] = "idle"
      /\ pc'[p] = "finish" /\ \A q \in Procs \ {p} : pc'[q] = pc[q]
  BY DEF TypeOK, StepTypes
<1> QED BY <1>1 DEF Vault!Deliver, Vault!Nothing, Plain

(* A filter that is gone has taken and delivered nothing.                     *)
LEMMA EndStep ==
  ASSUME TypeOK, NEW p \in Procs, End(p)
  PROVE  Vault!End(p)
<1>1. /\ pc'[p] = "idle"
      /\ \A q \in Procs \ {p} : /\ pc'[q] = pc[q] /\ file'[q] = file[q]
                               /\ input'[q] = input[q] /\ out'[q] = out[q]
  BY DEF TypeOK, StepTypes, LocalTypes, End, Goto
<1> QED BY <1>1 DEF Vault!End, Vault!Nothing

(* A filter that starts takes what its input says.                            *)
LEMMA TakeStep ==
  ASSUME TypeOK, NEW p \in Procs, NEW f \in Files, NEW c, NEW o,
         NEW s \in {"pub", "local"}, Begin(p, o, f, c, s)
  PROVE  Vault!Take(p, f, Plain(c))
<1>1. /\ pc[p] = "idle" /\ pc'[p] = s /\ file'[p] = f /\ input'[p] = c
      /\ \A q \in Procs \ {p} : pc'[q] = pc[q] /\ file'[q] = file[q] /\ input'[q] = input[q]
      /\ UNCHANGED <<work, index, out>>
  BY DEF TypeOK, StepTypes, LocalTypes, Begin, Goto, gitVars
<1> QED BY <1>1 DEF Vault!Take, Vault!Nothing

(* Whatever a file holds says a plaintext, or is damaged.                     *)
LEMMA Readable == \A c \in Contents : Plain(c) \in Texts \cup {Damaged}
BY BlobFacts DEF Plain, Contents, Ciphertexts

(* Every step is one of the abstract filters or changes nothing there.        *)
LEMMA StepRefines == IInv /\ IInv' /\ [Next]_vars => [Vault!Next]_Vault!vars
<1> SUFFICES ASSUME IInv, IInv', [Next]_vars PROVE [Vault!Next]_Vault!vars
  OBVIOUS
<1>1. ASSUME NEW p \in Procs, Start(p) PROVE Vault!Next
  <2>1. PICK f \in Files : \/ \E o \in {"add", "status"} : StartClean(p, o, f)
                           \/ \E b \in {index[f]} \cup Elsewhere : StartSmudge(p, f, b)
    BY <1>1 DEF Start
  <2>2. work[f] \in Contents /\ \A b \in {index[f]} \cup Elsewhere : b \in Contents
    BY ElsewhereFacts DEF IInv, TypeOK, FileTypes
  <2>3. ASSUME NEW o, StartClean(p, o, f) PROVE Vault!Next
    BY <2>2, <2>3, TakeStep, Readable DEF StartClean, Vault!Next, IInv
  <2>4. ASSUME NEW b \in {index[f]} \cup Elsewhere, StartSmudge(p, f, b)
       PROVE Vault!Next
    BY <2>2, <2>4, TakeStep, Readable DEF StartSmudge, Vault!Next, IInv
  <2> QED BY <2>1, <2>3, <2>4
<1>2. ASSUME NEW p \in Procs, Read(p) PROVE UNCHANGED Vault!vars
  BY <1>2, StutterStep DEF Read, ReadPub, ReadKey, ReadDir, ReadStaged, Goto,
     gitVars, IInv, TypeOK, StepTypes
<1>3. ASSUME NEW p \in Procs, Clean(p) \/ Smudge(p) \/ Store(p)
     PROVE [Vault!Next]_Vault!vars
  <2>1. CASE RefuseDamaged(p) \/ SmudgeFails(p)
    BY <2>1, EndStep DEF RefuseDamaged, SmudgeFails, gitVars, Vault!GiveUp,
       Vault!Next, IInv
  <2>2. CASE ~RefuseDamaged(p) /\ ~SmudgeFails(p)
    <3>1. /\ pc[p] \notin {"idle", "finish"}
          /\ \E s \in PcValues \ {"idle"} : Goto(p, s)
          /\ UNCHANGED <<work, index, file, input>>
      BY <1>3, <2>2 DEF Clean, Smudge, Store, PassThrough, CleanLocked, Probe,
         Serve, Purge,
         Reuse, Encrypt, ReadLocal, CheckStale, SaveRefreshed, Reread, SmudgeThrough, Decrypt, Persist, Rename, Prune,
         gitVars, localVars, PcValues, Goto
    <3>2. \A q \in Procs \ {p} : out'[q] = out[q]
      BY <1>3, <2>2 DEF Clean, Smudge, Store, PassThrough, CleanLocked, Probe,
         Serve, Purge,
         Reuse, Encrypt, ReadLocal, CheckStale, SaveRefreshed, Reread, SmudgeThrough, Decrypt, Persist, Rename, Prune,
         localVars, IInv, TypeOK, LocalTypes
    <3>3. CASE pc'[p] = "finish"
      <4>1. pc' = [pc EXCEPT ![p] = "finish"]
        BY <3>1, <3>3 DEF Goto, IInv, TypeOK, StepTypes
      <4>2. Plain(out'[p]) = Plain(input[p])
        <5>1. Plain(out'[p]) = Plain(input'[p])
          BY <3>3 DEF IInv, OutputInv
        <5> QED BY <3>1, <5>1 DEF Plain
      <4> QED BY <3>1, <3>2, <4>1, <4>2, DeliverStep DEF Vault!Next, IInv
    <3>4. CASE pc'[p] # "finish"
      BY <3>1, <3>2, <3>4, StutterStep DEF Goto, IInv, TypeOK, StepTypes
    <3> QED BY <3>3, <3>4
  <2> QED BY <2>1, <2>2
<1>4. ASSUME NEW p \in Procs, Finish(p) PROVE Vault!Next
  <2>1. /\ pc[p] = "finish" /\ End(p) /\ file[p] \in Files
        /\ op[p] \in {"add", "status", "checkout"}
        /\ Plain(out[p]) = Plain(input[p])
    BY <1>4 DEF Finish, IInv, PhaseInv, OutputInv, TypeOK, StepTypes
  <2>2. Vault!End(p)
    BY <2>1, EndStep DEF IInv
  <2>3. CASE op[p] = "status"
    BY <1>4, <2>2, <2>3 DEF Finish, gitVars, Vault!GiveUp, Vault!Next
  <2>4. CASE op[p] = "add"
    <3>1. index' = [index EXCEPT ![file[p]] = out[p]] /\ UNCHANGED work
      BY <1>4, <2>4 DEF Finish
    <3>2. Vault!Stage(p)
      BY <2>1, <2>2, <3>1 DEF Vault!Stage, Vault!Nothing, IInv, TypeOK,
         FileTypes
    <3> QED BY <3>2 DEF Vault!Next
  <2>5. CASE op[p] = "checkout"
    <3>1. /\ index' = [index EXCEPT ![file[p]] = input[p]]
          /\ work' = [work EXCEPT ![file[p]] = out[p]]
      BY <1>4, <2>5 DEF Finish
    <3>2. Vault!CheckOut(p)
      BY <2>1, <2>2, <3>1 DEF Vault!CheckOut, Vault!Nothing, IInv, TypeOK,
         FileTypes
    <3> QED BY <3>2 DEF Vault!Next
  <2> QED BY <2>1, <2>3, <2>4, <2>5
<1>5. ASSUME NEW p \in Procs, Kill(p) PROVE Vault!Next
  BY <1>5, EndStep DEF Kill, gitVars, Vault!GiveUp, Vault!Next, IInv
<1>6. ASSUME NEW f \in Files, NEW c \in Texts \cup {Damaged},
             Edit(f, c) \/ (c = Damaged /\ DamageFile(f)) PROVE Vault!Next
  <2>1. work' = [work EXCEPT ![f] = c] /\ Plain(c) = c
        /\ UNCHANGED <<index, file, input, out, pc>>
    BY <1>6, PlainFacts, ValuesDiffer DEF Edit, DamageFile, localVars, Plain
  <2>2. Vault!Edit(f, c)
    BY <2>1 DEF Vault!Edit, IInv, TypeOK, FileTypes
  <2> QED BY <2>2 DEF Vault!Next
<1>7. ASSUME NEW s \in Slots, DamageEntry(s) PROVE UNCHANGED Vault!vars
  BY <1>7, StutterStep DEF DamageEntry, gitVars, localVars, IInv
<1>8. CASE RotatePub \/ RestorePub \/ SaveKey \/ DropKey \/ \E gone : ClearCache(gone)
  BY <1>8, StutterStep DEF RotatePub, RestorePub, SaveKey, DropKey, ClearCache,
     gitVars, localVars, IInv
<1>9. CASE UNCHANGED vars
  BY <1>9, StutterStep DEF vars, IInv
<1> QED BY <1>1, <1>2, <1>3, <1>4, <1>5, <1>6, <1>7, <1>8, <1>9 DEF Next,
     Filter, Environment

-----------------------------------------------------------------------------
(* IInv is inductive, so it holds in every reachable state.                   *)
THEOREM Invariance == Spec => []IInv
<1>1. IInv /\ [Next]_vars => IInv'
  BY RepoTypesStep, FileTypesStep, StepTypesStep, LocalTypesStep, PhaseStep,
     SearchStep,
     StoreStep, OutputStep, CacheStep, GenerationStep DEF IInv, TypeOK
<1> QED BY InitIInv, <1>1, PTL DEF Spec

(* The variables keep their types.                                            *)
THEOREM TypeCorrect == Spec => []TypeOK
<1>1. IInv => TypeOK
  BY DEF IInv
<1> QED BY Invariance, <1>1, PTL

(* Plaintext comes out of the clean filter encrypted, except what looks like  *)
(* ciphertext to a filter without a key, for any number of filters, files,    *)
(* keys and cache entries.                                                    *)
THEOREM PlaintextIsEncrypted == Spec => []CleanEncrypts
<1>1. IInv => CleanEncrypts
  BY DEF IInv, OutputInv, CleanEncrypts, Cleaned
<1> QED BY Invariance, <1>1, PTL

(* As long as repo.pub stays what it is under each filter, a filter whose key *)
(* matches it returns ciphertext of that generation and no other.             *)
THEOREM GenerationsDoNotMix == Spec => []OneGeneration
<1>1. IInv => OneGeneration
  BY DEF IInv, GenerationInv, OneGeneration, Cleaned
<1> QED BY Invariance, <1>1, PTL

(* No filter encrypts again what its staged blob decrypts to.                 *)
THEOREM StagedBlobIsFound == Spec => NoNeedlessCiphertext
<1>1. IInv /\ [Next]_vars =>
        [\A p \in Procs : Encrypt(p) /\ held[p] # 0 => ~Matches(p, staged[p])]_vars
  BY DEF IInv, SearchInv, Encrypt
<1> QED BY Invariance, <1>1, PTL DEF Spec, NoNeedlessCiphertext

(* The filters with their keys, ciphertexts and cache implement filters on    *)
(* plaintext that deliver exactly what they have taken.                       *)
THEOREM Refinement == Spec => ImplementsAtomicFilters
<1>1. Init => Vault!Init
  <2> SUFFICES ASSUME Init PROVE Vault!Init
    OBVIOUS
  <2>1. PICK text \in [Files -> Texts], g \in 0 .. pub :
          LET blob(f) == [gen |-> g, text |-> text[f], n |-> 0]
          IN  /\ index = [f \in Files |-> IF g = 0 THEN text[f] ELSE blob(f)]
              /\ work  = [f \in Files |-> IF key = g THEN text[f] ELSE index[f]]
    BY DEF Init
  <2>2. \A f \in Files : g # 0 => LET b == [gen |-> g, text |-> text[f], n |-> 0]
                                  IN  b \in Blobs /\ b.text = text[f]
    BY FilterBoundsType DEF Init, Blobs, Gens
  <2>3. \A f \in Files : Plain(index[f]) = text[f] /\ Plain(work[f]) = text[f]
    BY <2>1, <2>2, PlainFacts
  <2>4. \A p \in Procs : pc[p] = "idle"
    BY DEF Init
  <2> QED BY <2>3, <2>4 DEF Vault!Init, Vault!Nothing
<1>2. IInv /\ IInv' /\ [Next]_vars => [Vault!Next]_Vault!vars
  BY StepRefines
<1> QED BY Invariance, <1>1, <1>2, PTL DEF Spec, ImplementsAtomicFilters,
     Vault!Spec
=============================================================================
