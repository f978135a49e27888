CONSTANTS
  anna = anna
  ben = ben
  main = main
  topic = topic
  secret = secret
  Clones = {anna}
  Others = {ben}
  Refs = {main, topic}
  Paths = {secret}
  Telling = {}
  Contents <- SecretContents
  MaxCommits = 3
  MaxPushes = 2
  MaxListed = 1
  NoPush = NoPush
SPECIFICATION Spec
INVARIANTS HistoryClean PushInspected CarefulHistory
SYMMETRY Symmetries
CONSTRAINTS OneDeletionAtATime ShortWithOther
