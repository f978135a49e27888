-------------------------- MODULE Enforcement_proofs --------------------------
(***************************************************************************)
(* What the hooks keep out of a server, for any number of clones, pushers, *)
(* branches, commits and pushes.                                           *)
(***************************************************************************)
EXTENDS Enforcement, TLAPS

(* The invariant holds before the first commit.                             *)
LEMMA InitIInv == Init => IInv
<1> SUFFICES ASSUME Init PROVE IInv
  OBVIOUS
<1>1. Made = {}
  BY DEF Init, Made
<1>2. TypeOK
  BY <1>1, EnforcementBounds DEF Init, TypeOK
<1>3. ClosedInv /\ CheckedInv /\ HistoryClean /\ PushInspected /\ CarefulHistory
  BY <1>1 DEF Init, ClosedInv, CheckedInv, HistoryClean, PushInspected, CarefulHistory
<1>. QED BY <1>2, <1>3 DEF IInv

(* What somebody has has been made, with all its ancestors.                 *)
LEMMA HasFacts ==
  ASSUME IInv, NEW u \in Pushers PROVE Has(u) \subseteq Made
<1>1. /\ onServer \subseteq Made /\ \A a \in Clones : elsewhere[a] \subseteq Made
      /\ \A a \in Clones : have[a] \subseteq Made
  BY DEF IInv, TypeOK
<1>2. CASE u \in Clones
  BY <1>1, <1>2 DEF Has
<1>3. CASE u \notin Clones
  <2> DEFINE others == UNION {elsewhere[a] : a \in Clones}
             taken == UNION {have[a] : a \in Clones}
  <2>1. others \subseteq Made
    BY <1>1
  <2>2. Has(u) = onServer \cup others \cup (Made \ taken)
    BY <1>3 DEF Has, Made
  <2> HIDE DEF others, taken
  <2>. QED BY <1>1, <2>1, <2>2
<1>. QED BY <1>2, <1>3

(* A commit leaves the earlier ones as they are.                            *)
LEMMA CreateFacts ==
  ASSUME IInv, NEW u \in Pushers, NEW ps \in Lineages(u), NEW content \in Contents,
         NEW w \in SUBSET Paths, NEW hooked \in BOOLEAN, NEW h \in Heads(ps),
         Create(u, ps, h, content, w, hooked)
  PROVE  /\ count \in Nat /\ count' = count + 1 /\ count' \in Ids
         /\ Made' = Made \cup {count'} /\ count' \notin Made
         /\ \A c \in Made : commit'[c] = commit[c] /\ commit[c] \in Commits
         /\ ps \subseteq Made
         /\ commit'[count'] \in Commits
         /\ commit'[count'].content = content
         /\ commit'[count'].anc = {count'} \cup UNION {commit[p].anc : p \in ps}
         /\ commit' \in [Ids -> Commits \cup {NoPush}]
<1> USE EnforcementBounds DEF IInv
<1>1. count \in Nat /\ count' = count + 1 /\ count' \in Ids /\ count \in 0 .. MaxCommits
  BY DEF Create, TypeOK, Ids
<1>2. Made' = Made \cup {count'} /\ count' \notin Made
  BY <1>1 DEF Made
<1>3. \A c \in Made : c \in Ids /\ commit[c] \in Commits
  BY <1>1 DEF Made, Ids, TypeOK
<1>4. ps \subseteq Made
  BY HasFacts DEF Lineages
<1> DEFINE rec == [content |-> content,
        anc |-> {count + 1} \cup UNION {commit[p].anc : p \in ps},
        changed |-> IF Cardinality(ps) > 1 THEN {} ELSE Differs(TreeOf(h), content.tree),
        moved |-> IF Cardinality(ps) > 1 THEN {} ELSE Moves(TreeOf(h), content.tree),
        careful |-> /\ hooked /\ w = content.rules
                    /\ \A p \in ps : commit[p].careful /\ commit[p].content.rules = w]
<1>5. commit' = [commit EXCEPT ![count + 1] = rec]
  BY DEF Create
<1>6. rec \in Commits
  <2>1. {count + 1} \cup UNION {commit[p].anc : p \in ps} \subseteq Ids
    BY <1>1, <1>3, <1>4 DEF Commits
  <2>2. Differs(TreeOf(h), content.tree) \subseteq Paths
    BY DEF Differs
  <2>3. Moves(TreeOf(h), content.tree) \subseteq Paths \X Paths
    BY DEF Moves
  <2>. QED BY <2>1, <2>2, <2>3 DEF Commits
<1> HIDE DEF rec
<1>7. commit \in [Ids -> Commits \cup {NoPush}]
  BY DEF TypeOK
<1>8. commit'[count'] = rec /\ commit' \in [Ids -> Commits \cup {NoPush}]
  BY <1>1, <1>5, <1>6, <1>7
<1>9. \A c \in Made : commit'[c] = commit[c]
  BY <1>1, <1>2, <1>3, <1>5, <1>7
<1>10. rec.content = content /\ rec.anc = {count + 1} \cup UNION {commit[p].anc : p \in ps}
  BY DEF rec
<1>. QED BY <1>1, <1>2, <1>3, <1>4, <1>6, <1>8, <1>9, <1>10

(* A commit recorded as careful was checked, and so were its parents.       *)
LEMMA CarefulFacts ==
  ASSUME IInv, NEW u \in Pushers, NEW ps \in Lineages(u), NEW content \in Contents,
         NEW w \in SUBSET Paths, NEW hooked \in BOOLEAN, NEW h \in Heads(ps),
         Create(u, ps, h, content, w, hooked), commit'[count'].careful
  PROVE  /\ hooked /\ w = content.rules /\ PassesPreCommit(ps, h, content, w)
         /\ \A p \in ps : commit[p].careful /\ commit[p].content.rules = w
<1>0. count' \in Ids /\ count' = count + 1
  BY CreateFacts
<1>1. count' \in Ids /\ count' = count + 1 /\ commit \in [Ids -> Commits \cup {NoPush}]
  BY <1>0 DEF IInv, TypeOK
<1>2. commit'[count'].careful =
        (/\ hooked /\ w = content.rules
         /\ \A p \in ps : commit[p].careful /\ commit[p].content.rules = w)
  BY <1>1 DEF Create
<1>. QED BY <1>2 DEF Create

(* A commit keeps the invariant.                                            *)
LEMMA CreateKeeps ==
  ASSUME IInv, NEW u \in Pushers, NEW ps \in Lineages(u), NEW content \in Contents,
         NEW w \in SUBSET Paths, NEW hooked \in BOOLEAN, NEW h \in Heads(ps),
         Create(u, ps, h, content, w, hooked)
  PROVE  IInv'
<1> DEFINE c == count'
<1>0. /\ count \in Nat /\ c = count + 1 /\ c \in Ids
      /\ Made' = Made \cup {c} /\ c \notin Made
      /\ \A d \in Made : commit'[d] = commit[d] /\ commit[d] \in Commits
      /\ ps \subseteq Made
      /\ commit'[c] \in Commits
      /\ commit'[c].content = content
      /\ commit'[c].anc = {c} \cup UNION {commit[p].anc : p \in ps}
      /\ commit' \in [Ids -> Commits \cup {NoPush}]
  BY CreateFacts
<1> HIDE DEF c
<1>1. /\ have' = [a \in Clones |-> IF a = u THEN have[a] \cup {count + 1} ELSE have[a]]
      /\ UNCHANGED <<refs, onServer, waived, strict, tracking, elsewhere, push, pushes>>
  BY DEF Create, server
<1>2. TypeOK'
  <2>1. count' \in 0 .. MaxCommits
    BY <1>0, EnforcementBounds DEF c, Ids
  <2>2. 0 .. count \subseteq 0 .. count'
    BY <1>0 DEF c
  <2>3. \A d \in Made' : commit'[d] \in Commits
    BY <1>0
  <2>4. have' \in [Clones -> SUBSET Made']
    BY <1>0, <1>1 DEF IInv, TypeOK
  <2>5. refs' \in [Refs -> 0 .. count'] /\ tracking' \in [Clones -> [Refs -> 0 .. count']]
    BY <1>1, <2>2 DEF IInv, TypeOK
  <2>6. /\ onServer' \subseteq Made' /\ waived' \subseteq onServer' /\ strict' \in BOOLEAN
        /\ elsewhere' \in [Clones -> SUBSET Made']
    BY <1>0, <1>1 DEF IInv, TypeOK
  <2>7. push' \in [Pushers -> Pushes \cup {NoPush}] /\ pushes' \in 0 .. MaxPushes
    BY <1>1 DEF IInv, TypeOK
  <2>. QED BY <1>0, <2>1, <2>3, <2>4, <2>5, <2>6, <2>7 DEF TypeOK
<1>3. \A x : x \in Made \cup {0} => (x = 0 \/ x \in Made)
  OBVIOUS
<1>4. 0 \notin Made /\ onServer \subseteq Made /\ \A a \in Clones : have[a] \subseteq Made
  BY DEF IInv, TypeOK, Made
<1>5. ClosedInv'
  <2>1. \A d \in Made : d \in commit[d].anc /\ commit[d].anc \subseteq Made
    BY DEF IInv, ClosedInv
  <2>2. \A d \in Made' : d \in commit'[d].anc /\ commit'[d].anc \subseteq Made'
    BY <1>0, <2>1
  <2>3. \A d \in Made' : \A e \in commit'[d].anc : commit'[e].anc \subseteq commit'[d].anc
    <3>1. \A d \in Made : \A e \in commit[d].anc : e \in Made /\ commit[e].anc \subseteq commit[d].anc
      BY <2>1 DEF IInv, ClosedInv
    <3>2. \A e \in commit'[c].anc : commit'[e].anc \subseteq commit'[c].anc
      <4> SUFFICES ASSUME NEW e \in commit'[c].anc, e # c
                   PROVE  commit'[e].anc \subseteq commit'[c].anc
        OBVIOUS
      <4>1. PICK p \in ps : e \in commit[p].anc
        BY <1>0
      <4>2. commit'[e].anc = commit[e].anc /\ commit[e].anc \subseteq commit[p].anc
        BY <1>0, <3>1, <4>1
      <4>. QED BY <1>0, <4>1, <4>2
    <3>. QED BY <1>0, <3>1, <3>2
  <2>4. \A a \in Clones : \A d \in have'[a] : commit'[d].anc \subseteq have'[a]
    <3> SUFFICES ASSUME NEW a \in Clones, NEW d \in have'[a]
                 PROVE  commit'[d].anc \subseteq have'[a]
      OBVIOUS
    <3>1. CASE d = c /\ a = u
      <4>1. ps \subseteq have[a]
        BY <3>1 DEF Lineages, Has
      <4>2. \A p \in ps : commit[p].anc \subseteq have[a]
        BY <4>1 DEF IInv, ClosedInv
      <4>. QED BY <1>0, <1>1, <3>1, <4>2
    <3>2. CASE d \in have[a]
      <4>1. commit'[d].anc \subseteq have[a]
        BY <1>0, <1>4, <3>2 DEF IInv, ClosedInv
      <4>. QED BY <1>1, <4>1
    <3>. QED BY <1>0, <1>1, <3>1, <3>2
  <2>5. \A d \in onServer' : commit'[d].anc \subseteq onServer'
    BY <1>0, <1>1, <1>4 DEF IInv, ClosedInv
  <2>. QED BY <1>0, <1>1, <2>2, <2>3, <2>4, <2>5 DEF IInv, ClosedInv
<1>6. \A x \in Made \cup {0} : Anc(x)' = Anc(x)
  BY <1>0, <1>4 DEF Anc
<1>7. CheckedInv'
  <2> SUFFICES ASSUME NEW v \in Pushers, push[v] # NoPush, push[v].checked, push[v].clean
               PROVE  /\ \A d \in Anc(push[v].new)' \ onServer : CommitClean(commit'[d])
                      /\ push[v].new # 0 => TipClean(commit'[push[v].new])
    BY <1>1 DEF CheckedInv
  <2>1. push[v].new \in Made \cup {0}
    BY DEF IInv, ClosedInv
  <2>2. Anc(push[v].new) \subseteq Made
    BY <2>1 DEF Anc, IInv, ClosedInv
  <2>3. Anc(push[v].new)' = Anc(push[v].new)
    BY <1>1, <1>6, <2>1
  <2>4. /\ \A d \in Anc(push[v].new) \ onServer : CommitClean(commit[d])
        /\ push[v].new # 0 => TipClean(commit[push[v].new])
    BY DEF IInv, CheckedInv
  <2>5. \A d \in Anc(push[v].new) : commit'[d] = commit[d]
    BY <1>0, <2>2
  <2>6. push[v].new # 0 => commit'[push[v].new] = commit[push[v].new]
    BY <1>0, <2>1
  <2>. QED BY <2>3, <2>4, <2>5, <2>6
<1>8. HistoryClean'
  BY <1>0, <1>1, <1>4 DEF IInv, HistoryClean
<1>9. PushInspected'
  BY <1>1 DEF IInv, PushInspected
<1>10. CarefulHistory'
  <2>1. CASE ~commit'[c].careful
    BY <1>0, <2>1 DEF IInv, CarefulHistory
  <2>2. CASE commit'[c].careful
    <3>1. /\ hooked /\ w = content.rules /\ PassesPreCommit(ps, h, content, w)
          /\ \A p \in ps : commit[p].careful /\ commit[p].content.rules = w
      BY <2>2, CarefulFacts DEF c
    <3>2. ASSUME NEW p \in content.rules, content.tree[p] \in {"plain", "foreign"} PROVE FALSE
      <4>0. p \in Paths
        BY EnforcementType DEF AllContents
      <4>1. p \notin Differs(TreeOf(h), content.tree)
        BY <3>1, <3>2 DEF PassesPreCommit
      <4>2. TreeOf(h)[p] = content.tree[p]
        BY <3>2, <4>0, <4>1 DEF Differs
      <4>3. h # 0
        BY <3>2, <4>0, <4>2 DEF TreeOf
      <4>4. h \in ps
        BY <4>3 DEF Heads
      <4>5. commit[h].content.tree[p] \in {"plain", "foreign"} /\ p \in commit[h].content.rules
        BY <3>1, <3>2, <4>2, <4>3, <4>4 DEF TreeOf
      <4>. QED BY <1>0, <3>1, <4>4, <4>5 DEF IInv, CarefulHistory
    <3>. QED BY <1>0, <3>2 DEF IInv, CarefulHistory
  <2>. QED BY <2>1, <2>2
<1>. QED BY <1>2, <1>5, <1>7, <1>8, <1>9, <1>10 DEF IInv

(* Ancestors are commits, and what refs reach has been on the server.       *)
LEMMA AncFacts ==
  ASSUME IInv
  PROVE  /\ 0 \notin Made
         /\ \A c \in Made \cup {0} : Anc(c) \subseteq Made /\ (c # 0 => c \in Anc(c))
         /\ \A c \in onServer \cup {0} : Anc(c) \subseteq onServer
         /\ Reachable \subseteq onServer
         /\ \A a \in Clones : TrackedBy(a) \subseteq onServer \cup elsewhere[a]
<1>1. 0 \notin Made /\ onServer \subseteq Made
  BY DEF IInv, TypeOK, Made
<1>2. \A c \in Made \cup {0} : Anc(c) \subseteq Made /\ (c # 0 => c \in Anc(c))
  BY DEF Anc, IInv, ClosedInv
<1>3. \A c \in onServer \cup {0} : Anc(c) \subseteq onServer
  BY DEF Anc, IInv, ClosedInv
<1>4. Reachable \subseteq onServer
  BY <1>3 DEF Reachable, IInv, ClosedInv
<1>5. \A a \in Clones : TrackedBy(a) \subseteq onServer \cup elsewhere[a]
  BY <1>3 DEF TrackedBy, IInv, ClosedInv
<1>. QED BY <1>1, <1>2, <1>3, <1>4, <1>5

(* A fetch keeps the invariant.                                             *)
LEMMA FetchKeeps ==
  ASSUME IInv, NEW a \in Clones, Fetch(a) PROVE IInv'
<1>1. UNCHANGED <<count, commit, refs, onServer, waived, strict, elsewhere, push, pushes>>
  BY DEF Fetch, graph, server
<1>2. /\ tracking' = [tracking EXCEPT ![a] =
                        [r \in Refs |-> IF refs[r] # 0 THEN refs[r] ELSE tracking[a][r]]]
      /\ have' = [have EXCEPT ![a] = @ \cup UNION {Anc(refs[r]) : r \in Refs}]
  BY DEF Fetch
<1>3. Made' = Made
  BY <1>1 DEF Made
<1>4. \A r \in Refs : refs[r] \in Made \cup {0} /\ refs[r] \in onServer \cup {0}
  BY DEF IInv, TypeOK, ClosedInv
<1>5. TypeOK'
  <2>1. have' \in [Clones -> SUBSET Made']
    BY <1>2, <1>3, <1>4, AncFacts DEF IInv, TypeOK
  <2>2. tracking' \in [Clones -> [Refs -> 0 .. count']]
    BY <1>1, <1>2 DEF IInv, TypeOK
  <2>. QED BY <1>1, <1>3, <2>1, <2>2 DEF IInv, TypeOK
<1>6. ClosedInv'
  <2>1. \A b \in Clones : \A c \in have'[b] : commit[c].anc \subseteq have'[b]
    <3> SUFFICES ASSUME NEW b \in Clones, NEW c \in have'[b]
                 PROVE  commit[c].anc \subseteq have'[b]
      OBVIOUS
    <3>1. CASE c \in have[b]
      BY <1>2, <3>1 DEF IInv, TypeOK, ClosedInv
    <3>2. CASE b = a /\ c \in UNION {Anc(refs[r]) : r \in Refs}
      <4>1. PICK r \in Refs : c \in Anc(refs[r])
        BY <3>2
      <4>2. refs[r] \in Made
        BY <1>4, <4>1 DEF Anc
      <4>3. commit[c].anc \subseteq Anc(refs[r])
        BY <4>1, <4>2, AncFacts DEF Anc, IInv, ClosedInv
      <4>. QED BY <1>2, <3>2, <4>3 DEF IInv, TypeOK
    <3>. QED BY <1>2, <3>1, <3>2 DEF IInv, TypeOK
  <2>2. \A b \in Clones, r \in Refs : tracking'[b][r] \in onServer \cup {0}
    BY <1>2, <1>4 DEF IInv, TypeOK, ClosedInv
  <2>. QED BY <1>1, <1>3, <2>1, <2>2 DEF IInv, ClosedInv
<1>7. CheckedInv' /\ HistoryClean'
  BY <1>1 DEF IInv, CheckedInv, HistoryClean, Anc
<1>8. PushInspected' /\ CarefulHistory'
  BY <1>1, <1>3 DEF IInv, PushInspected, CarefulHistory
<1>. QED BY <1>5, <1>6, <1>7, <1>8 DEF IInv

(* A visit to another remote keeps the invariant.                           *)
LEMMA VisitKeeps ==
  ASSUME IInv, NEW a \in Clones, NEW c \in Made, VisitOther(a, c) PROVE IInv'
<1>1. /\ UNCHANGED <<count, commit, refs, onServer, waived, strict, tracking, push, pushes>>
      /\ elsewhere' = [elsewhere EXCEPT ![a] = @ \cup Anc(c)]
      /\ have' = [have EXCEPT ![a] = @ \cup Anc(c)]
  BY DEF VisitOther, graph, server
<1>2. Made' = Made
  BY <1>1 DEF Made
<1>3. Anc(c) \subseteq Made /\ \A d \in Anc(c) : commit[d].anc \subseteq Anc(c)
  BY AncFacts DEF Anc, IInv, ClosedInv
<1>4. TypeOK'
  <2>1. have' \in [Clones -> SUBSET Made'] /\ elsewhere' \in [Clones -> SUBSET Made']
    BY <1>1, <1>2, <1>3 DEF IInv, TypeOK
  <2>. QED BY <1>1, <1>2, <2>1 DEF IInv, TypeOK
<1>5. ClosedInv'
  <2>1. \A b \in Clones : \A d \in have'[b] : commit[d].anc \subseteq have'[b]
    BY <1>1, <1>3 DEF IInv, TypeOK, ClosedInv
  <2>. QED BY <1>1, <1>2, <2>1 DEF IInv, ClosedInv
<1>6. CheckedInv' /\ HistoryClean'
  BY <1>1 DEF IInv, CheckedInv, HistoryClean, Anc
<1>7. PushInspected' /\ CarefulHistory'
  BY <1>1, <1>2 DEF IInv, PushInspected, CarefulHistory
<1>. QED BY <1>4, <1>5, <1>6, <1>7 DEF IInv

(* A hook that leaves commits out leaves out what a remote has.             *)
LEMMA ListedFacts ==
  ASSUME IInv, NEW a \in Clones, NEW r \in Refs, NEW new \in have[a],
         refs[r] \in have[a] \cup {0}
  PROVE  Anc(new) \ (onServer \cup elsewhere[a]) \subseteq Listed(a, refs[r], new)
<1>1. Anc(refs[r]) \subseteq onServer /\ TrackedBy(a) \subseteq onServer \cup elsewhere[a]
  BY AncFacts DEF IInv, ClosedInv
<1>2. CASE refs[r] = 0
  BY <1>1, <1>2 DEF Listed
<1>3. CASE refs[r] # 0
  BY <1>1, <1>3 DEF Listed
<1>. QED BY <1>2, <1>3

(* A new push keeps the invariant.                                          *)
LEMMA PushKeeps ==
  ASSUME IInv, NEW u \in Pushers, NEW k \in Pushes,
         push' = [push EXCEPT ![u] = k], pushes' \in 0 .. MaxPushes,
         UNCHANGED <<count, commit, refs, onServer, waived, strict, have, tracking, elsewhere>>,
         k.old \in onServer \cup {0}, k.new \in Made \cup {0}, k.missed = {},
         k.checked /\ k.clean =>
           /\ \A c \in Anc(k.new) \ onServer : CommitClean(commit[c])
           /\ k.new # 0 => TipClean(commit[k.new])
  PROVE  IInv'
<1>1. Made' = Made
  BY DEF Made
<1>2. push \in [Pushers -> Pushes \cup {NoPush}]
  BY DEF IInv, TypeOK
<1>3. \A v \in Pushers : push'[v] = IF v = u THEN k ELSE push[v]
  BY <1>2
<1>4. TypeOK'
  BY <1>1, <1>2 DEF IInv, TypeOK
<1>5. ClosedInv'
  BY <1>1, <1>3 DEF IInv, ClosedInv
<1>6. CheckedInv'
  <2> SUFFICES ASSUME NEW v \in Pushers, push'[v] # NoPush, push'[v].checked, push'[v].clean
               PROVE  /\ \A d \in Anc(push'[v].new) \ onServer : CommitClean(commit[d])
                      /\ push'[v].new # 0 => TipClean(commit[push'[v].new])
    BY DEF CheckedInv, Anc
  <2>1. CASE v = u
    BY <1>3, <2>1
  <2>2. CASE v # u
    BY <1>3, <2>2 DEF IInv, CheckedInv
  <2>. QED BY <2>1, <2>2
<1>7. HistoryClean'
  BY DEF IInv, HistoryClean
<1>8. PushInspected'
  BY <1>3 DEF IInv, PushInspected
<1>9. CarefulHistory'
  BY <1>1 DEF IInv, CarefulHistory
<1>. QED BY <1>4, <1>5, <1>6, <1>7, <1>8, <1>9 DEF IInv

(* A push that somebody gives up or that is rejected keeps the invariant.   *)
LEMMA DropKeeps ==
  ASSUME IInv, NEW u \in Pushers, push' = [push EXCEPT ![u] = NoPush],
         UNCHANGED <<count, commit, refs, onServer, waived, strict, have, tracking, elsewhere, pushes>>
  PROVE  IInv'
<1>1. Made' = Made /\ push \in [Pushers -> Pushes \cup {NoPush}]
  BY DEF Made, IInv, TypeOK
<1>2. \A v \in Pushers : push'[v] = IF v = u THEN NoPush ELSE push[v]
  BY <1>1
<1>3. TypeOK'
  BY <1>1 DEF IInv, TypeOK
<1>4. ClosedInv' /\ PushInspected'
  BY <1>1, <1>2 DEF IInv, ClosedInv, PushInspected
<1>5. CheckedInv'
  BY <1>2 DEF IInv, CheckedInv, Anc
<1>6. HistoryClean' /\ CarefulHistory'
  BY <1>1 DEF IInv, HistoryClean, CarefulHistory
<1>. QED BY <1>3, <1>4, <1>5, <1>6 DEF IInv

(* git push keeps the invariant.                                            *)
LEMMA SendKeeps ==
  ASSUME IInv, NEW u \in Pushers, NEW r \in Refs, NEW new \in Has(u),
         NEW w \in SUBSET Paths, NEW hooked \in BOOLEAN, Send(u, r, new, w, hooked)
  PROVE  IInv'
<1> DEFINE missed == IF hooked /\ refs[r] \in have[u] \cup {0}
                       THEN (Anc(new) \ (onServer \cup elsewhere[u])) \ Listed(u, refs[r], new)
                       ELSE {}
           k == [ref |-> r, old |-> refs[r], new |-> new, checked |-> FALSE, clean |-> FALSE,
                 missed |-> missed]
<1>1. /\ push' = [push EXCEPT ![u] = k]
      /\ UNCHANGED <<count, commit, refs, onServer, waived, strict, have, tracking, elsewhere>>
      /\ pushes < MaxPushes /\ pushes' = pushes + 1 /\ (hooked => u \in Clones)
  BY DEF Send, graph, server, clones
<1>2. new \in Made /\ refs[r] \in onServer \cup {0}
  BY HasFacts DEF IInv, ClosedInv
<1>3. missed = {}
  <2>1. CASE hooked /\ refs[r] \in have[u] \cup {0}
    <3>1. u \in Clones /\ new \in have[u]
      BY <1>1, <2>1 DEF Has
    <3>2. Anc(new) \ (onServer \cup elsewhere[u]) \subseteq Listed(u, refs[r], new)
      BY <2>1, <3>1, ListedFacts
    <3>. QED BY <2>1, <3>2
  <2>2. CASE ~(hooked /\ refs[r] \in have[u] \cup {0})
    BY <2>2
  <2>. QED BY <2>1, <2>2
<1> HIDE DEF missed
<1>4. k \in Pushes
  <2>1. count \in 0 .. MaxCommits /\ MaxCommits \in Nat
    BY EnforcementBounds DEF IInv, TypeOK
  <2>2. new \in 0 .. MaxCommits /\ refs[r] \in 0 .. MaxCommits
    BY <1>2, <2>1 DEF Made, IInv, TypeOK
  <2>. QED BY <1>3, <2>2 DEF Pushes
<1>5. pushes' \in 0 .. MaxPushes
  BY <1>1, EnforcementBounds DEF IInv, TypeOK
<1>6. k.old = refs[r] /\ k.new = new /\ k.missed = missed /\ ~k.checked
  OBVIOUS
<1> HIDE DEF k
<1>. QED BY <1>1, <1>2, <1>3, <1>4, <1>5, <1>6, PushKeeps

(* git push --delete keeps the invariant.                                   *)
LEMMA SendDeletionKeeps ==
  ASSUME IInv, NEW u \in Pushers, NEW r \in Refs, SendDeletion(u, r)
  PROVE  IInv'
<1> DEFINE k == [ref |-> r, old |-> refs[r], new |-> 0, checked |-> TRUE, clean |-> TRUE,
                 missed |-> {}]
<1>1. /\ push' = [push EXCEPT ![u] = k]
      /\ UNCHANGED <<count, commit, refs, onServer, waived, strict, have, tracking, elsewhere, pushes>>
  BY DEF SendDeletion, graph, server, clones
<1>2. refs[r] \in onServer \cup {0}
  BY DEF IInv, ClosedInv
<1>3. k \in Pushes
  BY EnforcementBounds DEF Pushes, IInv, TypeOK
<1>4. pushes' \in 0 .. MaxPushes
  BY <1>1 DEF IInv, TypeOK
<1>5. k.old = refs[r] /\ k.new = 0 /\ k.missed = {} /\ Anc(k.new) = {}
  BY DEF Anc
<1> HIDE DEF k
<1>. QED BY <1>1, <1>2, <1>3, <1>4, <1>5, PushKeeps

(* What the server does not have is inspected.                              *)
LEMMA InspectedFacts ==
  ASSUME IInv, NEW old \in onServer \cup {0}, NEW new \in Made
  PROVE  Anc(new) \ onServer \subseteq Inspected(old, new)
<1>1. Anc(old) \subseteq onServer /\ Reachable \subseteq onServer
  BY AncFacts
<1>. QED BY <1>1 DEF Inspected

(* The server's hook keeps the invariant.                                   *)
LEMMA ReceiveKeeps ==
  ASSUME IInv, NEW u \in Pushers, Receive(u) PROVE IInv'
<1> DEFINE k == push[u]
           clean == (\A c \in Inspected(k.old, k.new) : CommitClean(commit[c])) /\ TipClean(commit[k.new])
           n == [k EXCEPT !.checked = TRUE, !.clean = clean]
<1>1. /\ k # NoPush /\ ~k.checked
      /\ push' = [push EXCEPT ![u] = IF strict /\ ~clean THEN NoPush ELSE n]
      /\ UNCHANGED <<count, commit, refs, onServer, waived, strict, have, tracking, elsewhere, pushes>>
  BY DEF Receive, graph, server, clones
<1>2. CASE strict /\ ~clean
  <2>1. push' = [push EXCEPT ![u] = NoPush]
    BY <1>1, <1>2
  <2>. QED BY <1>1, <2>1, DropKeeps
<1>3. CASE ~(strict /\ ~clean)
  <2>1. push' = [push EXCEPT ![u] = n]
    BY <1>1, <1>3
  <2>2. k \in Pushes /\ k.missed = {} /\ k.old \in onServer \cup {0} /\ k.new \in Made \cup {0}
    BY <1>1 DEF IInv, TypeOK, ClosedInv, PushInspected
  <2>3. clean \in BOOLEAN
    OBVIOUS
  <2>4. clean => /\ \A c \in Anc(k.new) \ onServer : CommitClean(commit[c])
                 /\ k.new # 0 => TipClean(commit[k.new])
    BY <2>2, InspectedFacts DEF Anc
  <2> HIDE DEF clean, k
  <2>5. n \in Pushes /\ n.missed = {} /\ n.old = k.old /\ n.new = k.new /\ n.clean = clean
    BY <2>2, <2>3 DEF Pushes
  <2>6. pushes' \in 0 .. MaxPushes
    BY <1>1 DEF IInv, TypeOK
  <2> HIDE DEF n
  <2>. QED BY <1>1, <2>1, <2>2, <2>4, <2>5, <2>6, PushKeeps
<1>. QED BY <1>2, <1>3

(* A push that is applied, or that comes too late, keeps the invariant.     *)
LEMMA ApplyKeeps ==
  ASSUME IInv, NEW u \in Pushers, Apply(u) PROVE IInv'
<1> DEFINE k == push[u]
           arrived == Anc(k.new) \ onServer
<1>1. /\ k # NoPush /\ k.checked /\ push' = [push EXCEPT ![u] = NoPush]
      /\ UNCHANGED <<count, commit, strict, have, elsewhere, pushes>>
  BY DEF Apply, graph
<1>2. CASE refs[k.ref] # k.old
  <2>1. UNCHANGED <<refs, onServer, waived, tracking>>
    BY <1>2 DEF Apply, server
  <2>. QED BY <1>1, <2>1, DropKeeps
<1>3. CASE refs[k.ref] = k.old
  <2>1. /\ refs' = [refs EXCEPT ![k.ref] = k.new]
        /\ onServer' = onServer \cup Anc(k.new)
        /\ waived' = IF k.clean THEN waived ELSE waived \cup arrived \cup ({k.new} \ {0})
        /\ tracking' = [a \in Clones |-> IF a = u THEN [tracking[a] EXCEPT ![k.ref] = k.new]
                                              ELSE tracking[a]]
    BY <1>3 DEF Apply
  <2>2. k \in Pushes /\ k.new \in Made \cup {0} /\ k.ref \in Refs
    BY <1>1 DEF IInv, TypeOK, ClosedInv, Pushes
  <2>3. /\ Anc(k.new) \subseteq Made /\ (k.new # 0 => k.new \in Anc(k.new))
        /\ \A c \in Anc(k.new) : commit[c].anc \subseteq Anc(k.new)
    <3>1. Anc(k.new) \subseteq Made /\ (k.new # 0 => k.new \in Anc(k.new))
      BY <2>2, AncFacts
    <3>2. \A c \in Anc(k.new) : commit[c].anc \subseteq Anc(k.new)
      BY <2>2 DEF Anc, IInv, ClosedInv
    <3>. QED BY <3>1, <3>2
  <2>4. k.clean => /\ \A c \in Anc(k.new) \ onServer : CommitClean(commit[c])
                   /\ k.new # 0 => TipClean(commit[k.new])
    BY <1>1 DEF IInv, CheckedInv
  <2> HIDE DEF k
  <2>5. Made' = Made /\ push \in [Pushers -> Pushes \cup {NoPush}]
    BY <1>1 DEF Made, IInv, TypeOK
  <2>6. \A v \in Pushers : push'[v] = IF v = u THEN NoPush ELSE push[v]
    BY <1>1, <2>5
  <2>7. TypeOK'
    <3>1. refs' \in [Refs -> 0 .. count'] /\ tracking' \in [Clones -> [Refs -> 0 .. count']]
      BY <1>1, <2>1, <2>2 DEF IInv, TypeOK, Made
    <3>2. onServer' \subseteq Made' /\ waived' \subseteq onServer'
      BY <2>1, <2>3, <2>5 DEF IInv, TypeOK
    <3>. QED BY <1>1, <2>5, <3>1, <3>2 DEF IInv, TypeOK
  <2>8. ClosedInv'
    <3>1. \A c \in onServer' : commit[c].anc \subseteq onServer'
      BY <2>1, <2>3 DEF IInv, ClosedInv
    <3>2. \A r \in Refs : refs'[r] \in onServer' \cup {0}
      BY <2>1, <2>2, <2>3 DEF IInv, TypeOK, ClosedInv
    <3>3. \A a \in Clones, r \in Refs : tracking'[a][r] \in onServer' \cup {0}
      BY <2>1, <2>2, <2>3 DEF IInv, TypeOK, ClosedInv
    <3>4. \A v \in Pushers : push'[v] # NoPush =>
            push'[v].old \in onServer' \cup {0} /\ push'[v].new \in Made \cup {0}
      BY <2>1, <2>6 DEF IInv, ClosedInv
    <3>. QED BY <1>1, <2>5, <3>1, <3>2, <3>3, <3>4 DEF IInv, ClosedInv
  <2>9. CheckedInv'
    BY <1>1, <2>1, <2>6 DEF IInv, CheckedInv, Anc
  <2>10. HistoryClean'
    <3>1. ASSUME NEW c \in onServer' \ waived' PROVE CommitClean(commit[c])
      <4>1. CASE c \in onServer \ waived
        BY <4>1 DEF IInv, HistoryClean
      <4>2. CASE c \in arrived /\ k.clean
        BY <2>4, <4>2
      <4>. QED BY <2>1, <3>1, <4>1, <4>2
    <3>2. ASSUME NEW r \in Refs, refs'[r] \in onServer' \ waived' PROVE TipClean(commit[refs'[r]])
      <4>1. CASE r = k.ref
        <5>1. refs'[r] = k.new /\ k.new # 0
          <6>1. refs'[r] = k.new
            BY <2>1, <2>2, <4>1 DEF IInv, TypeOK
          <6>. QED BY <2>7, <3>2, <6>1, AncFacts, <2>5 DEF TypeOK
        <5>2. k.clean
          BY <2>1, <3>2, <5>1
        <5>. QED BY <2>4, <5>1, <5>2
      <4>2. CASE r # k.ref
        <5>1. refs'[r] = refs[r]
          BY <2>1, <4>2 DEF IInv, TypeOK
        <5>2. refs[r] \in onServer \ waived
          BY <2>1, <2>7, <3>2, <5>1, <2>5, AncFacts DEF IInv, ClosedInv, TypeOK
        <5>. QED BY <5>1, <5>2 DEF IInv, HistoryClean
      <4>. QED BY <4>1, <4>2
    <3>. QED BY <1>1, <3>1, <3>2 DEF HistoryClean
  <2>11. PushInspected' /\ CarefulHistory'
    BY <1>1, <2>5, <2>6 DEF IInv, PushInspected, CarefulHistory
  <2>. QED BY <2>7, <2>8, <2>9, <2>10, <2>11 DEF IInv
<1>. QED BY <1>2, <1>3

(* Every step keeps the invariant.                                          *)
LEMMA NextIInv == IInv /\ [Next]_vars => IInv'
<1> SUFFICES ASSUME IInv, [Next]_vars PROVE IInv'
  OBVIOUS
<1>1. ASSUME NEW u \in Pushers, NEW ps \in Lineages(u), NEW content \in Contents,
             NEW w \in SUBSET Paths, NEW hooked \in BOOLEAN, NEW h \in Heads(ps),
             Create(u, ps, h, content, w, hooked)
      PROVE  IInv'
  BY <1>1, CreateKeeps
<1>2. ASSUME NEW u \in Pushers, NEW r \in Refs, NEW new \in Has(u), NEW w \in SUBSET Paths,
             NEW hooked \in BOOLEAN, Send(u, r, new, w, hooked)
      PROVE  IInv'
  BY <1>2, SendKeeps
<1>3. ASSUME NEW u \in Pushers, NEW r \in Refs, SendDeletion(u, r) PROVE IInv'
  BY <1>3, SendDeletionKeeps
<1>4. ASSUME NEW u \in Pushers, Receive(u) \/ Apply(u) PROVE IInv'
  BY <1>4, ReceiveKeeps, ApplyKeeps
<1>5. ASSUME NEW a \in Clones, Fetch(a) PROVE IInv'
  BY <1>5, FetchKeeps
<1>6. ASSUME NEW a \in Clones, NEW c \in 1 .. count, VisitOther(a, c) PROVE IInv'
  BY <1>6, VisitKeeps DEF Made
<1>7. CASE Enforce \/ UNCHANGED vars
  <2>1. UNCHANGED <<count, commit, refs, onServer, waived, have, tracking, elsewhere, push, pushes>>
    BY <1>7 DEF Enforce, vars, graph, server, clones
  <2>2. strict' \in BOOLEAN
    BY <1>7 DEF Enforce, vars, IInv, TypeOK
  <2>3. Made' = Made
    BY <2>1 DEF Made
  <2>4. TypeOK' /\ ClosedInv'
    BY <2>1, <2>2, <2>3 DEF IInv, TypeOK, ClosedInv
  <2>5. CheckedInv' /\ HistoryClean'
    BY <2>1 DEF IInv, CheckedInv, HistoryClean, Anc
  <2>6. PushInspected' /\ CarefulHistory'
    BY <2>1, <2>3 DEF IInv, PushInspected, CarefulHistory
  <2>. QED BY <2>4, <2>5, <2>6 DEF IInv
<1>8. \A hooked \in BOOLEAN : Rules(hooked) \subseteq SUBSET Paths
  BY DEF Rules
<1>. QED BY <1>1, <1>2, <1>3, <1>4, <1>5, <1>6, <1>7, <1>8 DEF Next

(* The inductive invariant.                                                 *)
THEOREM Invariance == Spec => []IInv
<1>. QED BY InitIInv, NextIInv, PTL DEF Spec

(* Nothing that came under enforcement is unclean (format.rs:1490-1577).    *)
THEOREM CleanServer == Spec => []HistoryClean
<1>1. IInv => HistoryClean
  BY DEF IInv
<1>. QED BY <1>1, Invariance, PTL

(* A clone's hook lists all that no remote has (git.rs:2970-3014).          *)
THEOREM NothingMissed == Spec => []PushInspected
<1>1. IInv => PushInspected
  BY DEF IInv
<1>. QED BY <1>1, Invariance, PTL

(* Checking each commit against the last protects all files (git.rs:2557).  *)
THEOREM CarefulClone == Spec => []CarefulHistory
<1>1. IInv => CarefulHistory
  BY DEF IInv
<1>. QED BY <1>1, Invariance, PTL

=============================================================================
