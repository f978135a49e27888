CONSTANTS
  alice = alice
  bob = bob
  notes = notes
  secretA = secretA
  secretB = secretB
  Recipients = {alice, bob}
  Mine = {alice}
  Foreign = {}
  Files = {secretA}
  Ops = {"rekey", "lock", "unlock", "rewrap"}
  Forces = {TRUE}
  Hooked = TRUE
  Commits = {{"secrets"}, {"metadata"}, {"secrets", "metadata"}}
  MaxGen = 3
  MaxCrashes = 1
  MaxFaults = 1
  MaxOutside = 1
SPECIFICATION Spec
PROPERTIES WriteAhead SuccessMeansReencrypted
