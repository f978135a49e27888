----------------------------- MODULE Enforcement -----------------------------
(***************************************************************************)
(* The checks between a commit and the branches of a server: the pre-push  *)
(* hook of a clone and the pre-receive hook of the server.                 *)
(*                                                                         *)
(* Each hook asks git rev-list for the commits that are new, and looks at  *)
(* what they changed and at the tree of the tip.  What counts as new is    *)
(* taken from the refs of the moment: of the server, which other pushes    *)
(* change until this one is applied, and of the clone, whose               *)
(* remote-tracking refs are as old as its last fetch and are not only those*)
(* of the server it pushes to: a fork or an upstream is a remote as well.  *)
(* The hooks disagree about whose rules count: the server takes those of   *)
(* each commit, the clone those of its worktree.                           *)
(*                                                                         *)
(* A commit is the number of its creation; 0 is the zero object id.  Anyone*)
(* can commit anything: local hooks can be skipped.                        *)
(***************************************************************************)
EXTENDS Naturals, FiniteSets

CONSTANTS
  Clones,      \* clones with hooks, each with its own remote-tracking refs
  Others,      \* whoever else pushes, without a hook
  Refs,        \* branches of the server
  Paths,
  Telling,     \* paths whose name or content looks like a secret
  Contents,    \* what commits contain
  MaxCommits,  \* bound on commits made
  MaxPushes,   \* bound on pushes that are no deletions
  MaxListed,   \* commits rev-list -n lists
  NoPush       \* nobody pushes here

Pushers == Clones \cup Others

(* absent: no such file; plain: plaintext, or a damaged header; foreign:    *)
(* ciphertext the key of the clones does not open.                          *)
Blobs == {"absent", "plain", "empty", "foreign", "sealed"}

(* rules: the paths its own .gitattributes protect; keyed: the tree has    *)
(* repo.pub and an envelope of their ring.                                  *)
AllContents == [tree : [Paths -> Blobs], rules : SUBSET Paths, keyed : BOOLEAN]

ASSUME EnforcementType == Contents \subseteq AllContents /\ Telling \subseteq Paths
                          /\ Clones \cap Others = {} /\ NoPush \notin Pushers
ASSUME EnforcementBounds == MaxCommits \in Nat /\ MaxPushes \in Nat /\ MaxListed \in Nat

Ids == 1 .. MaxCommits

VARIABLES
  count,     \* commits made so far
  commit,    \* each with its content, parents, ancestors and differences
  refs,      \* the branches of the server
  strict,    \* the server's hook runs without --report-only
  onServer,  \* commits that came with a push that was applied
  waived,    \* history: those that came, or were tip, when violations were only reported
  have,      \* the commits in each clone
  tracking,  \* its remote-tracking refs of the server
  elsewhere, \* commits that its tracking refs of other remotes reach
  push,      \* what each pusher is pushing
  pushes     \* how many have begun that are no deletions

vars == <<count, commit, refs, strict, onServer, waived, have, tracking,
          elsewhere, push, pushes>>
graph == <<count, commit>>
server == <<refs, onServer, waived>>
clones == <<have, tracking, elsewhere>>

Anc(c) == IF c = 0 THEN {} ELSE commit[c].anc

Init ==
  /\ count = 0 /\ commit = [c \in Ids |-> NoPush]
  /\ refs = [r \in Refs |-> 0] /\ strict \in BOOLEAN
  /\ onServer = {} /\ waived = {}
  /\ have = [a \in Clones |-> {}] /\ tracking = [a \in Clones |-> [r \in Refs |-> 0]]
  /\ elsewhere = [a \in Clones |-> {}]
  /\ push = [u \in Pushers |-> NoPush] /\ pushes = 0

-----------------------------------------------------------------------------
TreeOf(c) == IF c = 0 THEN [p \in Paths |-> "absent"] ELSE commit[c].content.tree

(* The files a tree adds or changes, and those that go where another comes  *)
(* with the same content.                                                   *)
Differs(old, new) == {p \in Paths : new[p] \notin {"absent", old[p]}}
Moves(old, new) ==
  {m \in Paths \X Paths : /\ new[m[1]] = "absent" /\ old[m[1]] = new[m[2]]
                          /\ m[2] \in Differs(old, new) /\ old[m[2]] = "absent"}

(* The commits HEAD may name when a commit with these parents is made.      *)
Heads(ps) == IF ps = {} THEN {0} ELSE ps

(* Mutant: there is no pre-merge-commit hook.                               *)
PassesPreCommitUnlessMerge(ps, h, content, w) ==
  Cardinality(ps) > 1 \/ \A p \in Differs(TreeOf(h), content.tree) \cap w :
                            content.tree[p] \notin {"plain", "foreign"}

(* A protected file stays protected where it goes.                          *)
RenamesKept(moves, w) == \A m \in moves : m[1] \in w => m[2] \in w

(* check, in the pre-commit and pre-merge-commit hooks of an unlocked clone:*)
(* what is staged against HEAD, under the rules w of the worktree.          *)
PassesPreCommit(ps, h, content, w) ==
  /\ RenamesKept(Moves(TreeOf(h), content.tree), w)
  /\ \A p \in Differs(TreeOf(h), content.tree) :
       IF p \in w THEN content.tree[p] \notin {"plain", "foreign"}
                  ELSE p \in Telling => content.tree[p] # "plain"

(* git commit or git merge.  hooked: without --no-verify.  Git diff-tree    *)
(* will print what the commit changes with respect to its only parent, and  *)
(* nothing at all of a merge.  careful: history, it and all before it were  *)
(* checked under the rules they carry, which have not changed.              *)
Create(u, ps, h, content, w, hooked) ==
  LET c == count + 1 IN
  /\ count < MaxCommits
  /\ hooked => u \in Clones /\ PassesPreCommit(ps, h, content, w)
  /\ count' = c
  /\ commit' = [commit EXCEPT ![c] =
       [content |-> content,
        anc |-> {c} \cup UNION {commit[p].anc : p \in ps},
        changed |-> IF Cardinality(ps) > 1 THEN {} ELSE Differs(TreeOf(h), content.tree),
        moved |-> IF Cardinality(ps) > 1 THEN {} ELSE Moves(TreeOf(h), content.tree),
        careful |-> /\ hooked /\ w = content.rules
                    /\ \A p \in ps : commit[p].careful /\ commit[p].content.rules = w]]
  /\ have' = [a \in Clones |-> IF a = u THEN have[a] \cup {c} ELSE have[a]]
  /\ UNCHANGED <<server, strict, tracking, elsewhere, push, pushes>>

(* The commits somebody has to push or to build on; the others have what is *)
(* on a remote and what no clone has made.                                  *)
Has(u) ==
  IF u \in Clones THEN have[u]
  ELSE onServer \cup (UNION {elsewhere[a] : a \in Clones})
                \cup ((1 .. count) \ UNION {have[a] : a \in Clones})

(* The parents: none, one, or two of which neither precedes the other.      *)
Lineages(u) ==
  {ps \in SUBSET Has(u) : Cardinality(ps) <= 2 /\ \A c, d \in ps : c \in Anc(d) => c = d}

(* git fetch from the server, which does not prune.                         *)
Fetch(a) ==
  /\ push[a] = NoPush
  /\ tracking' = [tracking EXCEPT ![a] =
                    [r \in Refs |-> IF refs[r] # 0 THEN refs[r] ELSE tracking[a][r]]]
  /\ have' = [have EXCEPT ![a] = @ \cup UNION {Anc(refs[r]) : r \in Refs}]
  /\ UNCHANGED <<graph, server, strict, elsewhere, push, pushes>>

(* A fetch from another remote or a push to it, on which anything may be.   *)
VisitOther(a, c) ==
  /\ push[a] = NoPush
  /\ elsewhere' = [elsewhere EXCEPT ![a] = @ \cup Anc(c)]
  /\ have' = [have EXCEPT ![a] = @ \cup Anc(c)]
  /\ UNCHANGED <<graph, server, strict, tracking, push, pushes>>

-----------------------------------------------------------------------------
(* check --pre-push.                                                        *)
TrackedBy(a) == elsewhere[a] \cup UNION {Anc(tracking[a][r]) : r \in Refs}

Newest(cs) == {c \in cs : Cardinality({d \in cs : c < d}) < MaxListed}

(* Mutant: what the clone has on other branches is not new.                 *)
ListedNotAll(a, old, new) ==
  IF old = 0 THEN Anc(new) \ (have[a] \ {new})
  ELSE IF old \in have[a] THEN Anc(new) \ Anc(old)
  ELSE {}

(* The commits it lists.  A new branch: those on no remote-tracking ref,    *)
(* whichever remote that is of, or the newest if there are none.  Otherwise *)
(* old..new, which is empty when the clone does not have the old commit: the*)
(* exit status is not looked at.                                            *)
Listed(a, old, new) ==
  IF old = 0
    THEN IF Anc(new) \subseteq TrackedBy(a) THEN Newest(Anc(new)) ELSE Anc(new) \ TrackedBy(a)
  ELSE IF old \in have[a] THEN Anc(new) \ Anc(old)
  ELSE {}

(* What it goes through.  When git rev-list fails for another reason, that  *)
(* is the newest commits of a new branch and no commit of an old one; and a *)
(* commit whose git diff-tree fails is passed over.                         *)
Inspections(a, old, new) ==
  SUBSET Listed(a, old, new) \cup (IF old = 0 THEN SUBSET Newest(Anc(new)) ELSE {})

(* What the key of the clone does not open is refused at the tip only.      *)
TipOpens(new, w) == \A p \in w : commit[new].content.tree[p] # "foreign"

(* w: the paths the worktree's .gitattributes protect.  Empty files are not *)
(* looked at.                                                               *)
PassesPrePush(cs, new, w) ==
  /\ \A c \in cs :
       /\ RenamesKept(commit[c].moved, w)
       /\ \A p \in commit[c].changed \cap w : commit[c].content.tree[p] # "plain"
  /\ TipOpens(new, w)

(* git push: the old value is what the server advertised.  hooked: without  *)
(* --no-verify.  missed: history, commits the hook has not gone through     *)
(* although the clone has what the push replaces, no other remote has them  *)
(* and git did not fail.                                                    *)
Send(u, r, new, w, hooked) ==
  /\ pushes < MaxPushes /\ pushes' = pushes + 1
  /\ push[u] = NoPush /\ new \in Has(u) /\ new # refs[r]
  /\ hooked => /\ u \in Clones
               /\ \E cs \in Inspections(u, refs[r], new) : PassesPrePush(cs, new, w)
  /\ push' = [push EXCEPT ![u] =
       [ref |-> r, old |-> refs[r], new |-> new, checked |-> FALSE, clean |-> FALSE,
        missed |-> IF hooked /\ refs[r] \in have[u] \cup {0}
                     THEN (Anc(new) \ (onServer \cup elsewhere[u])) \ Listed(u, refs[r], new)
                     ELSE {}]]
  /\ UNCHANGED <<graph, server, strict, clones>>

(* A deletion passes both hooks.                                            *)
SendDeletion(u, r) ==
  /\ push[u] = NoPush /\ refs[r] # 0
  /\ push' = [push EXCEPT ![u] =
       [ref |-> r, old |-> refs[r], new |-> 0, checked |-> TRUE, clean |-> TRUE,
        missed |-> {}]]
  /\ UNCHANGED <<graph, server, strict, clones, pushes>>

-----------------------------------------------------------------------------
(* check --pre-receive.                                                     *)
Reachable == UNION {Anc(refs[r]) : r \in Refs}

(* Mutant: only the tip of a new branch is inspected.                       *)
InspectedTip(old, new) == IF old = 0 THEN {new} ELSE (Anc(new) \ Anc(old)) \cup {new}

(* A new branch: what no ref reaches, or everything if that is nothing.     *)
(* Otherwise old..new.  And always the tip.                                 *)
Inspected(old, new) ==
  IF old = 0
    THEN IF Anc(new) \subseteq Reachable THEN Anc(new) ELSE (Anc(new) \ Reachable) \cup {new}
    ELSE (Anc(new) \ Anc(old)) \cup {new}

(* inspect_commit_for_enforcement, under the rules of the commit itself.    *)
CommitClean(k) ==
  \A p \in k.changed :
    IF p \in k.content.rules THEN k.content.tree[p] \in {"foreign", "sealed"}
                             ELSE p \in Telling => k.content.tree[p] # "plain"

(* The ring of a protected file has its metadata in the tree.               *)
RingsKeyed(k) ==
  (\E p \in k.content.rules : k.content.tree[p] # "absent") => k.content.keyed

(* inspect_tip_tree_for_enforcement, on a server that has no key.           *)
TipClean(k) ==
  /\ \A p \in k.content.rules \cup Telling : k.content.tree[p] # "plain"
  /\ RingsKeyed(k)

(* The hook of one push.  Violations reject it, or are only reported.       *)
Receive(u) ==
  LET k == push[u]
      clean == (\A c \in Inspected(k.old, k.new) : CommitClean(commit[c])) /\ TipClean(commit[k.new])
  IN
  /\ k # NoPush /\ ~k.checked
  /\ push' = [push EXCEPT ![u] =
       IF strict /\ ~clean THEN NoPush ELSE [k EXCEPT !.checked = TRUE, !.clean = clean]]
  /\ UNCHANGED <<graph, server, strict, clones, pushes>>

(* Git applies the push if the branch still has its old value; the clone    *)
(* then moves its remote-tracking ref.                                      *)
Apply(u) ==
  LET k == push[u]
      arrived == Anc(k.new) \ onServer
  IN
  /\ k # NoPush /\ k.checked
  /\ push' = [push EXCEPT ![u] = NoPush]
  /\ IF refs[k.ref] = k.old
       THEN /\ refs' = [refs EXCEPT ![k.ref] = k.new]
            /\ onServer' = onServer \cup Anc(k.new)
            /\ waived' = IF k.clean THEN waived ELSE waived \cup arrived \cup ({k.new} \ {0})
            /\ tracking' = [a \in Clones |-> IF a = u THEN [tracking[a] EXCEPT ![k.ref] = k.new]
                                                 ELSE tracking[a]]
       ELSE UNCHANGED <<server, tracking>>
  /\ UNCHANGED <<graph, strict, have, elsewhere, pushes>>

(* The end of the rollout: the server starts to enforce.                    *)
Enforce ==
  /\ ~strict /\ strict' = TRUE
  /\ UNCHANGED <<graph, server, clones, push, pushes>>

(* What a worktree's .gitattributes protect matters only to a hook.         *)
Rules(hooked) == IF hooked THEN SUBSET Paths ELSE {{}}

Next ==
  \/ \E u \in Pushers :
       \/ \E ps \in Lineages(u), content \in Contents, hooked \in BOOLEAN :
            \E h \in Heads(ps), w \in Rules(hooked) : Create(u, ps, h, content, w, hooked)
       \/ \E r \in Refs, new \in Has(u), hooked \in BOOLEAN :
            \E w \in Rules(hooked) : Send(u, r, new, w, hooked)
       \/ \E r \in Refs : SendDeletion(u, r)
       \/ Receive(u) \/ Apply(u)
  \/ \E a \in Clones : Fetch(a) \/ \E c \in 1 .. count : VisitOther(a, c)
  \/ Enforce

Spec == Init /\ [][Next]_vars

-----------------------------------------------------------------------------
Commits ==
  [content : Contents, anc : SUBSET Ids, changed : SUBSET Paths,
   moved : SUBSET (Paths \X Paths), careful : BOOLEAN]

Pushes ==
  [ref : Refs, old : 0 .. MaxCommits, new : 0 .. MaxCommits, checked : BOOLEAN,
   clean : BOOLEAN, missed : SUBSET Ids]

Made == 1 .. count

TypeOK ==
  /\ count \in 0 .. MaxCommits
  /\ commit \in [Ids -> Commits \cup {NoPush}] /\ \A c \in Made : commit[c] \in Commits
  /\ refs \in [Refs -> 0 .. count] /\ strict \in BOOLEAN
  /\ onServer \subseteq Made /\ waived \subseteq onServer
  /\ have \in [Clones -> SUBSET Made] /\ tracking \in [Clones -> [Refs -> 0 .. count]]
  /\ elsewhere \in [Clones -> SUBSET Made]
  /\ push \in [Pushers -> Pushes \cup {NoPush}] /\ pushes \in 0 .. MaxPushes

(* History is closed under ancestors, on the server and in every clone, and *)
(* what a ref names, a clone has seen on the server or a push replaces has  *)
(* been there (rev-list at git.rs:2970-3014 and format.rs:1490-1552 leaves  *)
(* out what they reach).                                                    *)
ClosedInv ==
  /\ \A c \in Made : c \in commit[c].anc /\ commit[c].anc \subseteq Made
  /\ \A c \in Made : \A d \in commit[c].anc : commit[d].anc \subseteq commit[c].anc
  /\ \A a \in Clones : \A c \in have[a] : commit[c].anc \subseteq have[a]
  /\ \A c \in onServer : commit[c].anc \subseteq onServer
  /\ \A r \in Refs : refs[r] \in onServer \cup {0}
  /\ \A a \in Clones, r \in Refs : tracking[a][r] \in onServer \cup {0}
  /\ \A u \in Pushers : push[u] # NoPush =>
       push[u].old \in onServer \cup {0} /\ push[u].new \in Made \cup {0}

(* What a push that has passed the server's hook would bring is inspected,  *)
(* whatever other pushes do before it is applied (format.rs:1546).          *)
CheckedInv ==
  \A u \in Pushers : push[u] # NoPush /\ push[u].checked /\ push[u].clean =>
    /\ \A c \in Anc(push[u].new) \ onServer : CommitClean(commit[c])
    /\ push[u].new # 0 => TipClean(commit[push[u].new])

(* Everything that came to the server under enforcement is clean at the     *)
(* paths it changed, under its own rules, although a commit is inspected at *)
(* most when it is new, and so is the whole tree of every branch: force     *)
(* pushes, deletions, pushes that cross and times without enforcement lose  *)
(* none (format.rs:1490-1577).  Of merges git diff-tree prints nothing;     *)
(* they are covered when they are the tip.                                  *)
HistoryClean ==
  /\ \A c \in onServer \ waived : CommitClean(commit[c])
  /\ \A r \in Refs : refs[r] \in onServer \ waived => TipClean(commit[refs[r]])

(* What leaves a clone through its hook is listed for inspection there,     *)
(* however old its remote-tracking refs are, if it has the commit the push  *)
(* replaces (git.rs:2970-3014), but for what other remotes have: who fetches*)
(* from a fork and pushes that on to a new branch has nothing looked at.    *)
PushInspected ==
  \A u \in Pushers : push[u] # NoPush => push[u].missed = {}

(* Where the local hooks are never skipped and the rules stay what they are,*)
(* no commit, merges included, has a protected file that is not sealed to   *)
(* the ring (git.rs:2557): each commit is only checked against the one      *)
(* before it.                                                               *)
CarefulHistory ==
  \A c \in Made : commit[c].careful =>
    \A p \in commit[c].content.rules : commit[c].content.tree[p] \notin {"plain", "foreign"}

IInv == TypeOK /\ ClosedInv /\ CheckedInv /\ HistoryClean /\ PushInspected /\ CarefulHistory
=============================================================================
