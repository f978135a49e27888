---------------------------- MODULE MCEnforcement ----------------------------
EXTENDS Enforcement, TLC

CONSTANTS anna, ben, main, topic, secret

Content(blob, rules, keyed) == [tree |-> [p \in Paths |-> blob], rules |-> rules, keyed |-> keyed]

(* A file that no rule protects yet, that a rule protects too late, and that*)
(* is sealed.                                                               *)
SecretContents ==
  {Content("plain", {}, TRUE), Content("plain", Paths, TRUE), Content("sealed", Paths, TRUE)}

(* A bound: deletions of branches do not cross each other.                  *)
OneDeletionAtATime == Cardinality({u \in Pushers : push[u] # NoPush /\ push[u].new = 0}) <= 1

(* A bound: with a second remote, histories of two commits.                 *)
ShortWithOther == \A a \in Clones : elsewhere[a] # {} => count <= 2

Symmetries == Permutations(Refs)
==============================================================================
