------------------------------- MODULE Filters -------------------------------
(***************************************************************************)
(* The clean and smudge filters of git-agecrypt and their ciphertext       *)
(* cache.                                                                  *)
(*                                                                         *)
(* Git starts a filter process per file: `git add` and `git status` clean  *)
(* the file, a checkout smudges the blob.  age is randomised, so cleaning  *)
(* the same plaintext twice gives two ciphertexts unless the filter finds  *)
(* an earlier one, in the cache (cache/<hash of repo.pub>/<HMAC of the     *)
(* plaintext under repo.key>.age) or in the index.  Filters take no lock:  *)
(* they read repo.pub, repo.key, the index and the cache one after the     *)
(* other while commands rotate or drop the key and clear the cache and     *)
(* while other filters write to it.                                        *)
(*                                                                         *)
(* A key is modelled by its generation; 0 is no key.  A ciphertext is its  *)
(* generation, its plaintext and a number that stands for the randomness:  *)
(* 0 if a teammate made it.                                                *)
(***************************************************************************)
EXTENDS Naturals

CONSTANTS
  Files,     \* tracked secrets of one ring
  Texts,     \* plaintexts
  Magic,     \* plaintexts that begin like an age file and are none
  Elsewhere, \* ciphertexts that teammates and other branches have
  Procs,     \* filter processes
  MaxGen,    \* bound on generations
  MaxBlobs,  \* bound on ciphertexts made here
  MaxRuns,   \* bound on filters started
  MaxEvents, \* bound on what happens beside the filters
  None,      \* nothing there
  Damaged    \* an age file whose authentication fails

Gens  == 1 .. MaxGen
Blobs == [gen : Gens, text : Texts, n : 0 .. MaxBlobs]
Ciphertexts == Blobs \cup {Damaged}
Contents    == Texts \cup Ciphertexts

ASSUME MagicType == Magic \subseteq Texts
ASSUME FilterBoundsType == /\ MaxGen \in Nat \ {0} /\ MaxBlobs \in Nat
                           /\ MaxRuns \in Nat /\ MaxEvents \in Nat
ASSUME ElsewhereType == Elsewhere \subseteq [gen : Gens, text : Texts, n : {0}]
ASSUME ValuesDiffer == /\ None \notin Contents /\ Damaged \notin Blobs \cup Texts
                       /\ Texts \cap Blobs = {} /\ None \notin Files

VARIABLES
  pub,       \* generation repo.pub names
  newest,    \* the last generation created by anyone
  key,       \* generation of repo.key, 0 if there is none
  cache,     \* the entry in each slot of the cache
  work,      \* contents of each file in the worktree
  index,     \* the blob of its index entry
  made,      \* how many ciphertexts were made here
  mixed,     \* history: repo.pub changed under a running filter
  pc,        \* the step each filter is about to take
  op,        \* what Git runs it for
  file,      \* the file it was started for
  input,     \* its standard input
  recipient, \* the generation of repo.pub it encrypts to
  held,      \* the generation of the key it has read
  dir,       \* the cache directory, by the generation of repo.pub
  staged,    \* the blob it has read from the index
  out,       \* its standard output
  runs, events

repoVars  == <<pub, newest, key>>
gitVars   == <<work, index>>
counters  == <<runs, events>>
localVars == <<op, file, input, recipient, held, dir, staged, out>>
vars == <<pub, newest, key, cache, work, index, made, mixed, pc, op, file,
          input, recipient, held, dir, staged, out, runs, events>>

PcValues == {"idle", "pub", "key", "dir", "staged", "clean", "serve", "purge",
             "reuse", "encrypt", "local", "stale", "save", "reread", "smudge",
             "persist", "rename", "prune", "finish"}

(* A cache entry is found under the directory, the key and the plaintext.    *)
Slots == Gens \X Gens \X Texts

Cleaning(p) == op[p] \in {"add", "status"}

(* The plaintext the filter works on, and the ciphertext it has of it.       *)
Slot(p) == <<dir[p], held[p], IF Cleaning(p) THEN input[p] ELSE out[p]>>
Entry(p) == IF Cleaning(p) THEN out[p] ELSE input[p]

(* Mutant: a ciphertext is recognised by its plaintext under any key.        *)
MatchesAnyKey(p, b) == b \in Blobs /\ b.text = input[p]

(* The filter decrypts b with its key, and finds its input.                  *)
Opens(p, b)   == b \in Blobs /\ b.gen = held[p]
Matches(p, b) == Opens(p, b) /\ b.text = input[p]

-----------------------------------------------------------------------------
Goto(p, s) == pc' = [pc EXCEPT ![p] = s]

(* Earlier rotations, checkouts and filters may have left all of this.       *)
Init ==
  /\ pub \in Gens /\ newest = pub /\ key \in 0 .. pub
  /\ cache \in [Slots -> {None} \cup Elsewhere]
  /\ \A s \in Slots :
       cache[s] # None => s = <<s[1], cache[s].gen, cache[s].text>> /\ s[1] = s[2]
  /\ \E text \in [Files -> Texts], g \in 0 .. pub :
       LET blob(f) == [gen |-> g, text |-> text[f], n |-> 0]
       IN  /\ index = [f \in Files |-> IF g = 0 THEN text[f] ELSE blob(f)]
           /\ work  = [f \in Files |-> IF key = g THEN text[f] ELSE index[f]]
  /\ made = 0 /\ mixed = FALSE /\ runs = 0 /\ events = 0
  /\ pc = [p \in Procs |-> "idle"] /\ op = [p \in Procs |-> "none"]
  /\ file = [p \in Procs |-> None] /\ input = [p \in Procs |-> None]
  /\ recipient = [p \in Procs |-> 0] /\ held = [p \in Procs |-> 0]
  /\ dir = [p \in Procs |-> 0]
  /\ staged = [p \in Procs |-> None] /\ out = [p \in Procs |-> None]

(* The process is gone: Git has its output, or has aborted.                  *)
End(p) ==
  /\ Goto(p, "idle") /\ op' = [op EXCEPT ![p] = "none"]
  /\ file' = [file EXCEPT ![p] = None] /\ input' = [input EXCEPT ![p] = None]
  /\ recipient' = [recipient EXCEPT ![p] = 0] /\ held' = [held EXCEPT ![p] = 0]
  /\ dir' = [dir EXCEPT ![p] = 0]
  /\ staged' = [staged EXCEPT ![p] = None] /\ out' = [out EXCEPT ![p] = None]

(* One Git command at a time may write the index; `git status` need not.     *)
IndexFree == \A q \in Procs : op[q] \notin {"add", "checkout"}

Begin(p, o, f, c, s) ==
  /\ pc[p] = "idle" /\ Goto(p, s)
  /\ runs < MaxRuns /\ runs' = runs + 1
  /\ op' = [op EXCEPT ![p] = o] /\ file' = [file EXCEPT ![p] = f]
  /\ input' = [input EXCEPT ![p] = c]
  /\ UNCHANGED <<repoVars, gitVars, cache, made, mixed, events, recipient, held, dir, staged, out>>

-----------------------------------------------------------------------------
(* The clean filter: cmd_clean and clean_stream.                             *)

StartClean(p, o, f) ==
  /\ o = "add" => IndexFree
  /\ Begin(p, o, f, work[f], "pub")

ReadPub(p) ==
  /\ pc[p] = "pub" /\ Goto(p, "key")
  /\ recipient' = [recipient EXCEPT ![p] = pub]
  /\ UNCHANGED <<repoVars, gitVars, cache, made, mixed, counters, op, file, input, held, dir, staged, out>>

ReadKey(p) ==
  /\ pc[p] = "key" /\ Goto(p, "dir")
  /\ held' = [held EXCEPT ![p] = key]
  /\ UNCHANGED <<repoVars, gitVars, cache, made, mixed, counters, op, file, input, recipient, dir, staged, out>>

(* cache_dir_for_ring reads repo.pub again.                                  *)
ReadDir(p) ==
  /\ pc[p] = "dir" /\ Goto(p, IF Cleaning(p) THEN "staged" ELSE "smudge")
  /\ dir' = [dir EXCEPT ![p] = pub]
  /\ mixed' = (mixed \/ (Cleaning(p) /\ recipient[p] # pub))
  /\ UNCHANGED <<repoVars, gitVars, cache, made, counters, op, file, input, recipient, held, staged, out>>

ReadStaged(p) ==
  /\ pc[p] = "staged" /\ Goto(p, "clean")
  /\ staged' = [staged EXCEPT ![p] = index[file[p]]]
  /\ UNCHANGED <<repoVars, gitVars, cache, made, mixed, counters, op, file, input, recipient, held, dir, out>>

(* Mutant: whatever begins like ciphertext is taken for it.                  *)
PassMagic(p) ==
  /\ pc[p] = "clean" /\ Goto(p, "finish")
  /\ input[p] \in Ciphertexts \cup Magic
  /\ out' = [out EXCEPT ![p] = input[p]]
  /\ UNCHANGED <<repoVars, gitVars, cache, made, mixed, counters, op, file, input, recipient, held, dir, staged>>

(* Ciphertext, the filter's own or of a key it does not hold, is passed      *)
(* through, damaged ciphertext only if the key is another or missing;        *)
(* without a key, so is whatever begins like ciphertext.                     *)
PassThrough(p) ==
  /\ pc[p] = "clean" /\ Goto(p, "finish")
  /\ input[p] \in Ciphertexts \/ (input[p] \in Magic /\ held[p] = 0)
  /\ out' = [out EXCEPT ![p] = input[p]]
  /\ UNCHANGED <<repoVars, gitVars, cache, made, mixed, counters, op, file, input, recipient, held, dir, staged>>

RefuseDamaged(p) ==
  /\ pc[p] = "clean" /\ input[p] = Damaged /\ held[p] # 0
  /\ End(p)
  /\ UNCHANGED <<repoVars, gitVars, cache, made, mixed, counters>>

(* Without a key there is neither cache nor staged blob to look at.          *)
CleanLocked(p) ==
  /\ pc[p] = "clean" /\ input[p] \in Texts \ Magic /\ held[p] = 0
  /\ Goto(p, "encrypt")
  /\ UNCHANGED <<repoVars, gitVars, cache, made, mixed, counters, localVars>>

Probe(p) ==
  /\ pc[p] = "clean" /\ input[p] \in Texts /\ held[p] # 0
  /\ LET c == cache[Slot(p)]
     IN  Goto(p, IF c = None THEN "reuse" ELSE IF Matches(p, c) THEN "serve" ELSE "purge")
  /\ UNCHANGED <<repoVars, gitVars, cache, made, mixed, counters, localVars>>

(* The file is opened a second time to be copied to the output.              *)
Serve(p) ==
  /\ pc[p] = "serve"
  /\ IF cache[Slot(p)] # None
     THEN out' = [out EXCEPT ![p] = cache[Slot(p)]] /\ Goto(p, "finish")
     ELSE Goto(p, "reuse") /\ UNCHANGED out
  /\ UNCHANGED <<repoVars, gitVars, cache, made, mixed, counters, op, file, input, recipient, held, dir, staged>>

(* Mutant: after a bad entry the staged blob is forgotten.                   *)
PurgeAndEncrypt(p) ==
  /\ pc[p] = "purge" /\ Goto(p, "encrypt")
  /\ cache' = [cache EXCEPT ![Slot(p)] = None]
  /\ UNCHANGED <<repoVars, gitVars, made, mixed, counters, localVars>>

Purge(p) ==
  /\ pc[p] = "purge" /\ Goto(p, "reuse")
  /\ cache' = [cache EXCEPT ![Slot(p)] = None]
  /\ UNCHANGED <<repoVars, gitVars, made, mixed, counters, localVars>>

(* Mutant: the key decides, whatever the staged blob says.                   *)
ReuseOpened(p) ==
  /\ pc[p] = "reuse"
  /\ IF Opens(p, staged[p])
     THEN out' = [out EXCEPT ![p] = staged[p]] /\ Goto(p, "persist")
     ELSE Goto(p, "encrypt") /\ UNCHANGED out
  /\ UNCHANGED <<repoVars, gitVars, cache, made, mixed, counters, op, file, input, recipient, held, dir, staged>>

Reuse(p) ==
  /\ pc[p] = "reuse"
  /\ IF Matches(p, staged[p])
     THEN out' = [out EXCEPT ![p] = staged[p]] /\ Goto(p, "persist")
     ELSE Goto(p, "encrypt") /\ UNCHANGED out
  /\ UNCHANGED <<repoVars, gitVars, cache, made, mixed, counters, op, file, input, recipient, held, dir, staged>>

Encrypt(p) ==
  /\ pc[p] = "encrypt" /\ made < MaxBlobs
  /\ Goto(p, IF held[p] = 0 THEN "finish" ELSE "persist")
  /\ made' = made + 1
  /\ out' = [out EXCEPT ![p] = [gen |-> recipient[p], text |-> input[p], n |-> made + 1]]
  /\ UNCHANGED <<repoVars, gitVars, cache, mixed, counters, op, file, input, recipient, held, dir, staged>>

-----------------------------------------------------------------------------
(* The smudge filter: cmd_smudge and smudge_stream.                          *)

(* A checkout of the staged version or of one a teammate has committed.      *)
StartSmudge(p, f, b) ==
  /\ IndexFree
  /\ b = index[f] \/ (b \in Elsewhere /\ b.gen <= newest)
  /\ Begin(p, "checkout", f, b, "local")

ReadLocal(p) ==
  /\ pc[p] = "local" /\ Goto(p, "stale")
  /\ held' = [held EXCEPT ![p] = key]
  /\ UNCHANGED <<repoVars, gitVars, cache, made, mixed, counters, op, file, input, recipient, dir, staged, out>>

(* With a stale key the filter finds repo.pub's in an envelope or counts as  *)
(* locked; it takes the local one all the same if another filter has         *)
(* refreshed it or keeps refresh.lock too long.                              *)
CheckStale(p) ==
  /\ pc[p] = "stale"
  /\ \/ Goto(p, "reread") /\ UNCHANGED held
     \/ /\ held[p] \notin {0, pub}
        /\ \/ Goto(p, "save") /\ held' = [held EXCEPT ![p] = pub]
           \/ Goto(p, "dir") /\ held' = [held EXCEPT ![p] = 0]
  /\ UNCHANGED <<repoVars, gitVars, cache, made, mixed, counters, op, file, input, recipient, dir, staged, out>>

(* It has waited for recovery.lock.                                          *)
SaveRefreshed(p) ==
  /\ pc[p] = "save" /\ Goto(p, "dir")
  /\ key' = held[p]
  /\ UNCHANGED <<pub, newest, gitVars, cache, made, mixed, counters, localVars>>

Reread(p) ==
  /\ pc[p] = "reread" /\ Goto(p, "dir")
  /\ held' = [held EXCEPT ![p] = key]
  /\ UNCHANGED <<repoVars, gitVars, cache, made, mixed, counters, op, file, input, recipient, dir, staged, out>>

(* Plaintext, everything without a key, and foreign ciphertext.              *)
SmudgeThrough(p) ==
  /\ pc[p] = "smudge" /\ Goto(p, "finish")
  /\ \/ input[p] \in Texts \ Magic
     \/ held[p] = 0
     \/ input[p] \in Ciphertexts /\ ~Opens(p, input[p])
  /\ out' = [out EXCEPT ![p] = input[p]]
  /\ UNCHANGED <<repoVars, gitVars, cache, made, mixed, counters, op, file, input, recipient, held, dir, staged>>

Decrypt(p) ==
  /\ pc[p] = "smudge" /\ Opens(p, input[p]) /\ Goto(p, "persist")
  /\ out' = [out EXCEPT ![p] = input[p].text]
  /\ UNCHANGED <<repoVars, gitVars, cache, made, mixed, counters, op, file, input, recipient, held, dir, staged>>

SmudgeFails(p) ==
  /\ pc[p] = "smudge" /\ input[p] \in Magic \cup {Damaged} /\ held[p] # 0
  /\ End(p)
  /\ UNCHANGED <<repoVars, gitVars, cache, made, mixed, counters>>

-----------------------------------------------------------------------------
(* Both filters write their ciphertext to the cache unless the entry exists. *)

Persist(p) ==
  /\ pc[p] = "persist"
  /\ Goto(p, IF cache[Slot(p)] = None THEN "rename" ELSE "finish")
  /\ UNCHANGED <<repoVars, gitVars, cache, made, mixed, counters, localVars>>

(* The rename replaces an entry made since; it may fail.  Only after a staged *)
(* blob was cached is there no pruning.                                      *)
Rename(p) ==
  /\ pc[p] = "rename" /\ Goto(p, IF out[p] = staged[p] THEN "finish" ELSE "prune")
  /\ \/ cache' = [cache EXCEPT ![Slot(p)] = Entry(p)]
     \/ UNCHANGED cache
  /\ UNCHANGED <<repoVars, gitVars, made, mixed, counters, localVars>>

(* Now and then prune_cache_if_needed removes entries of the directory.      *)
Prune(p, gone) ==
  /\ pc[p] = "prune" /\ Goto(p, "finish")
  /\ cache' = [s \in Slots |-> IF s \in gone THEN None ELSE cache[s]]
  /\ UNCHANGED <<repoVars, gitVars, made, mixed, counters, localVars>>

(* Git takes the output.                                                     *)
Finish(p) ==
  /\ pc[p] = "finish" /\ End(p)
  /\ CASE op[p] = "status" -> UNCHANGED gitVars
       [] op[p] = "add" -> /\ index' = [index EXCEPT ![file[p]] = out[p]]
                           /\ UNCHANGED work
       [] op[p] = "checkout" -> /\ index' = [index EXCEPT ![file[p]] = input[p]]
                                /\ work' = [work EXCEPT ![file[p]] = out[p]]
  /\ UNCHANGED <<repoVars, cache, made, mixed, counters>>

Kill(p) ==
  /\ pc[p] # "idle" /\ End(p)
  /\ UNCHANGED <<repoVars, gitVars, cache, made, mixed, counters>>

-----------------------------------------------------------------------------
(* What else happens to the files the filters read.                          *)

Edit(f, t) ==
  /\ events < MaxEvents /\ events' = events + 1
  /\ work' = [work EXCEPT ![f] = t]
  /\ UNCHANGED <<repoVars, cache, index, made, mixed, runs, pc, localVars>>

DamageFile(f) ==
  /\ events < MaxEvents /\ events' = events + 1
  /\ work[f] \in Blobs /\ work' = [work EXCEPT ![f] = Damaged]
  /\ UNCHANGED <<repoVars, cache, index, made, mixed, runs, pc, localVars>>

(* A cache entry at rest is truncated or rots; a filter that has checked one *)
(* and is about to copy it is assumed to read the same bytes again.          *)
DamageEntry(s) ==
  /\ events < MaxEvents /\ events' = events + 1
  /\ cache[s] # None /\ \A p \in Procs : pc[p] # "serve"
  /\ cache' = [cache EXCEPT ![s] = Damaged]
  /\ UNCHANGED <<repoVars, gitVars, made, mixed, runs, pc, localVars>>

(* A rekey, or a pull of one, replaces repo.pub ...                          *)
RotatePub ==
  /\ events < MaxEvents /\ events' = events + 1
  /\ newest < MaxGen /\ newest' = newest + 1 /\ pub' = newest + 1
  /\ UNCHANGED <<key, gitVars, cache, made, mixed, runs, pc, localVars>>

(* ... a rollback puts the one that goes with repo.key back ...              *)
RestorePub ==
  /\ events < MaxEvents /\ events' = events + 1
  /\ key # 0 /\ pub # key /\ pub' = key
  /\ UNCHANGED <<newest, key, gitVars, cache, made, mixed, runs, pc, localVars>>

(* ... rekey, unlock and the refresh of a stale key save repo.key ...        *)
SaveKey ==
  /\ events < MaxEvents /\ events' = events + 1
  /\ key # pub /\ key' = pub
  /\ UNCHANGED <<pub, newest, gitVars, cache, made, mixed, runs, pc, localVars>>

(* ... and lock removes it.                                                  *)
DropKey ==
  /\ events < MaxEvents /\ events' = events + 1
  /\ key # 0 /\ key' = 0
  /\ UNCHANGED <<pub, newest, gitVars, cache, made, mixed, runs, pc, localVars>>

(* Lock and rekey remove the cache, an entry at a time; filters go on        *)
(* writing to it.                                                            *)
ClearCache(gone) ==
  /\ events < MaxEvents /\ events' = events + 1
  /\ cache' = [s \in Slots |-> IF s \in gone THEN None ELSE cache[s]]
  /\ UNCHANGED <<repoVars, gitVars, made, mixed, runs, pc, localVars>>

-----------------------------------------------------------------------------
Start(p) == \E f \in Files :
  \/ \E o \in {"add", "status"} : StartClean(p, o, f)
  \/ \E b \in {index[f]} \cup Elsewhere : StartSmudge(p, f, b)
Read(p)   == ReadPub(p) \/ ReadKey(p) \/ ReadDir(p) \/ ReadStaged(p)
Clean(p)  == \/ PassThrough(p) \/ RefuseDamaged(p) \/ CleanLocked(p) \/ Probe(p)
             \/ Serve(p) \/ Purge(p) \/ Reuse(p) \/ Encrypt(p)
Smudge(p) == \/ ReadLocal(p) \/ CheckStale(p) \/ SaveRefreshed(p) \/ Reread(p)
             \/ SmudgeThrough(p) \/ Decrypt(p) \/ SmudgeFails(p)
Filled    == {s \in Slots : cache[s] # None}
Store(p)  == \/ Persist(p) \/ Rename(p)
             \/ \E gone \in SUBSET {s \in Filled : s[1] = dir[p]} : Prune(p, gone)
Filter(p) == \/ Start(p) \/ Read(p) \/ Clean(p) \/ Smudge(p) \/ Store(p)
             \/ Finish(p) \/ Kill(p)
Environment ==
  \/ \E f \in Files : DamageFile(f) \/ \E t \in Texts : Edit(f, t)
  \/ \E s \in Slots : DamageEntry(s)
  \/ RotatePub \/ RestorePub \/ SaveKey \/ DropKey
  \/ \E gone \in SUBSET Filled \ {{}} : ClearCache(gone)

Next == Environment \/ \E p \in Procs : Filter(p)
Spec == Init /\ [][Next]_vars
-----------------------------------------------------------------------------
Keys == Gens \cup {0}

RepoTypes ==
  /\ pub \in Gens /\ newest \in Gens /\ key \in Keys
  /\ made \in 0 .. MaxBlobs /\ mixed \in BOOLEAN /\ runs \in Nat /\ events \in Nat
FileTypes ==
  /\ cache \in [Slots -> Ciphertexts \cup {None}]
  /\ work \in [Files -> Contents] /\ index \in [Files -> Contents]
StepTypes ==
  /\ pc \in [Procs -> PcValues]
  /\ op \in [Procs -> {"none", "add", "status", "checkout"}]
LocalTypes ==
  /\ file \in [Procs -> Files \cup {None}]
  /\ input \in [Procs -> Contents \cup {None}]
  /\ recipient \in [Procs -> Keys] /\ held \in [Procs -> Keys] /\ dir \in [Procs -> Keys]
  /\ staged \in [Procs -> Contents \cup {None}]
  /\ out \in [Procs -> Contents \cup {None}]
TypeOK == RepoTypes /\ FileTypes /\ StepTypes /\ LocalTypes

(* A clean filter about to return its output for a plaintext.                *)
Cleaned(p) == pc[p] = "finish" /\ Cleaning(p) /\ input[p] \in Texts

(* Plaintext that goes through the clean filter comes out encrypted, with    *)
(* any key and any state of the cache; the exception is a plaintext that     *)
(* looks like ciphertext to a filter without a key.                          *)
CleanEncrypts ==
  \A p \in Procs : Cleaned(p) => out[p] \in Blobs \/ (held[p] = 0 /\ input[p] \in Magic)

(* A filter that reads a matching repo.pub and repo.key returns ciphertext   *)
(* of their generation, whatever older or newer entries the cache, the index *)
(* and the filters beside it hold, unless repo.pub was replaced while a      *)
(* filter was between its two reads of it.                                   *)
OneGeneration ==
  ~mixed => \A p \in Procs :
              Cleaned(p) /\ recipient[p] = held[p] => /\ out[p] \in Blobs
                                                      /\ out[p].gen = recipient[p]

(* A filter whose key opens the staged blob and finds its input there never  *)
(* makes a new ciphertext, not even after it has purged a bad cache entry.   *)
NoNeedlessCiphertext ==
  [][\A p \in Procs : Encrypt(p) /\ held[p] # 0 => ~Matches(p, staged[p])]_vars

(* Seen through the key, filters change nothing: what they return, and hence *)
(* what is staged or checked out, says what they were started with.          *)
Plain(c) == IF c \in Blobs THEN c.text ELSE c
Vault == INSTANCE AtomicFilters WITH
  Contents  <- Texts \cup {Damaged},
  work      <- [f \in Files |-> Plain(work[f])],
  index     <- [f \in Files |-> Plain(index[f])],
  taken     <- [p \in Procs |-> IF pc[p] = "idle" THEN <<>>
                                ELSE <<file[p], Plain(input[p])>>],
  delivered <- [p \in Procs |-> IF pc[p] = "finish" THEN <<Plain(out[p])>> ELSE <<>>]
ImplementsAtomicFilters == Vault!Spec

(* Violated.  If the staged blob decrypts to the input, the clean filter     *)
(* returns that very blob.  It prefers the cache, which another file, a      *)
(* checkout or a filter beside it may have filled with another ciphertext.   *)
EmitsStagedBlob ==
  \A p \in Procs : Cleaned(p) /\ Matches(p, staged[p]) => out[p] = staged[p]

(* Violated.  What a hit returns has been authenticated with the key.  The   *)
(* entry is checked, then opened again.                                      *)
HitsAreAuthenticated ==
  [][\A p \in Procs : Serve(p) /\ cache[Slot(p)] # None => Matches(p, cache[Slot(p)])]_vars

(* Violated.  Ciphertext of an older generation is never returned for a      *)
(* plaintext.  With a key older than repo.pub the staged blob is.            *)
OldGenerationsStayBehind ==
  \A p \in Procs : Cleaned(p) /\ out[p] \in Blobs => out[p].gen = recipient[p]
==============================================================================
