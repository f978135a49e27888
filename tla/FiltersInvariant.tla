--------------------------- MODULE FiltersInvariant ---------------------------
(***************************************************************************)
(* The inductive invariant of Filters, in named parts.                     *)
(***************************************************************************)
EXTENDS Filters

(* Which filter is at which step, and what it has read by then.              *)
PhaseInv == \A p \in Procs :
  /\ pc[p] = "idle" <=> op[p] = "none"
  /\ pc[p] # "idle" => file[p] \in Files /\ input[p] \in Contents
  /\ pc[p] \in {"pub", "key", "staged", "clean", "serve", "purge", "reuse", "encrypt"} =>
       Cleaning(p)
  /\ pc[p] \in {"local", "stale", "save", "reread", "smudge"} => op[p] = "checkout"
  /\ pc[p] \notin {"idle", "pub"} /\ Cleaning(p) => recipient[p] \in Gens
  /\ pc[p] \notin {"idle", "pub", "key", "dir", "local", "stale", "save", "reread"} =>
       dir[p] \in Gens

(* Only plaintext gets as far as the cache, and only with a key.             *)
SearchInv == \A p \in Procs :
  /\ pc[p] \in {"serve", "purge", "reuse"} => held[p] # 0 /\ input[p] \in Texts
  /\ pc[p] = "encrypt" => /\ input[p] \in Texts
                          /\ held[p] = 0 => input[p] \notin Magic
                          /\ held[p] # 0 => ~Matches(p, staged[p])

(* What is about to be cached is ciphertext of the slot's plaintext.         *)
StoreInv == \A p \in Procs : pc[p] \in {"persist", "rename", "prune"} =>
  /\ held[p] # 0
  /\ Cleaning(p) => input[p] \in Texts /\ out[p] \in Blobs /\ out[p].text = input[p]
  /\ ~Cleaning(p) => Opens(p, input[p]) /\ out[p] = input[p].text

(* What is about to be returned says what the filter was started with.       *)
OutputInv == \A p \in Procs : pc[p] = "finish" =>
  /\ out[p] \in Contents /\ Plain(out[p]) = Plain(input[p])
  /\ Cleaned(p) => out[p] \in Blobs \/ (held[p] = 0 /\ input[p] \in Magic)

(* An undamaged entry is ciphertext of its slot's plaintext, and one that a  *)
(* filter is about to copy is undamaged.                                     *)
CacheInv ==
  /\ \A s \in Slots : cache[s] \in Blobs => cache[s].text = s[3]
  /\ \A p \in Procs : pc[p] = "serve" => cache[Slot(p)] # Damaged

(* As long as every filter finds repo.pub unchanged, the slots of a key in   *)
(* the directory of the same generation hold no other generation.            *)
GenerationInv == ~mixed =>
  /\ \A s \in Slots : s[1] = s[2] /\ cache[s] \in Blobs => cache[s].gen = s[1]
  /\ \A p \in Procs : Cleaning(p) =>
       /\ pc[p] \notin {"idle", "pub", "key", "dir"} => recipient[p] = dir[p]
       /\ pc[p] \in {"persist", "rename", "prune"} /\ recipient[p] = held[p] =>
            out[p].gen = held[p]
       /\ pc[p] = "finish" /\ input[p] \in Texts /\ recipient[p] = held[p] =>
            out[p] \in Blobs /\ out[p].gen = held[p]

IInv == /\ TypeOK /\ PhaseInv /\ SearchInv /\ StoreInv /\ OutputInv
        /\ CacheInv /\ GenerationInv
==============================================================================
