------------------------------ MODULE MCFilters ------------------------------
EXTENDS FiltersInvariant, TLC

CONSTANTS fileA, fileB, password, ageLike, first, second

Committed == {[gen |-> 1, text |-> password, n |-> 0]}
Interchangeable == Permutations(Procs)
==============================================================================
