CONSTANTS
  alice = alice
  bob = bob
  notes = notes
  secretA = secretA
  secretB = secretB
  Recipients = {alice, bob}
  Mine = {alice}
  Foreign = {notes}
  Files = {}
  Ops = {"rekey", "lock", "unlock", "add", "remove"}
  Forces = {FALSE}
  Hooked = TRUE
  Commits = {{"secrets", "metadata"}}
  MaxGen = 3
  MaxCrashes = 2
  MaxFaults = 1
  MaxOutside = 0
SPECIFICATION Spec
INVARIANTS BodyConsistent IInv
PROPERTIES ImplementsAtomicRekey
