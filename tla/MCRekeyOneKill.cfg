CONSTANTS
  alice = alice
  bob = bob
  notes = notes
  secretA = secretA
  secretB = secretB
  Recipients = {alice, bob}
  Mine = {alice, bob}
  Foreign = {}
  Files = {secretA, secretB}
  Ops = {"rekey", "lock", "unlock", "add", "remove", "rewrap", "status"}
  Forces = {FALSE}
  Hooked = TRUE
  Commits = {{"metadata"}, {"secrets", "metadata"}}
  MaxGen = 3
  MaxCrashes = 1
  MaxFaults = 0
  MaxOutside = 0
SPECIFICATION KeepingSpec
INVARIANTS OneKillInv KeyIsNeverLost SecretsStayReadable
PROPERTIES RollbackKeepsFiles
